---------------------------- MODULE Spec2Model ----------------------------
(***************************************************************************)
(* CorticalAI: function-call detection, dispatch and the streaming relay.  *)
(*                                                                         *)
(* Two builds of the framework are modelled:                               *)
(*   "js"  the JavaScript build (FunctionRegistry, LLMFramework with the   *)
(*         POST /api/v1/chat/stream route),                                *)
(*   "ts"  the TypeScript build (adds retrieval functions and the          *)
(*         WebSocket channel).                                             *)
(*                                                                         *)
(* Strings are sequences of atoms.  An atom is either a single character   *)
(* (":", " ", "\n", ";") or a run of word characters ("FUNCTION",          *)
(* "showAlert", "x").  No word atom is the concatenation of other word     *)
(* atoms, so equality of atom sequences is equality of the strings.        *)
(***************************************************************************)
EXTENDS Naturals, Sequences, FiniteSets, TLC

VARIABLES
    build,        \* "js" | "ts" | "v1": which build of the framework is running
    transport,    \* "http" | "ws" | "none": the channel of the request
    config,       \* merged configuration: flags, functions, functionPattern
    functions,    \* FunctionRegistry.functions (a Map, in insertion order)
    pc,           \* position of the request's async handler
    message,      \* req.body.message / the chatMessage payload
    functionCall, \* result of detectFunctionCall(message)
    parserCalls,  \* arguments every parseArgs routine was called with
    handlerCalls, \* invocations of func.handler, in order (function names)
    spawnCount,   \* number of execAsync calls (child processes spawned)
    result,       \* the value the last handler promise resolved to
    ragContext,   \* ts build: the joined retrieval documents
    log,          \* events written to the client's transport, in order
    lost,         \* events emitted on an object nobody listens to
    ended,        \* res.writableEnded
    endCalls,     \* number of res.end() calls
    acked,        \* ws: the acknowledgement callback has been invoked
    eventsAtAck,  \* ws: Len(log) when the acknowledgement was made
    wire,         \* the backend's byte stream for this request
    pos,          \* how much of wire has been delivered in 'data' chunks
    buffer,       \* streamLLMResponse's line buffer
    stream,       \* backend response body: "none" | "open" | "ended" | "errored"
    settled,      \* the promise of streamLLMResponse: "pending" | "resolved" | "rejected"
    timer,        \* v1: the stream timeout: "none" | "armed" | "cleared" | "fired"
    late,         \* res.write calls made after res.end(): who made them
    flights,      \* concurrent requests: per request its res, buffer and stream
    connectTimer, \* v1: the timer that aborts the opening call
    client,       \* the chat client of the browser: its flags and its messages
    userConfig    \* the configuration object the constructor was given

vars == <<build, transport, config, functions, pc, message, functionCall,
          parserCalls, handlerCalls, spawnCount, result, ragContext, log, lost,
          ended, endCalls, acked, eventsAtAck, wire, pos, buffer, stream, settled,
          timer, late, flights, connectTimer, client, userConfig>>

---------------------------------------------------------------------------
(* Bounds of the model *)

\* longest text handed to the detector when all texts are enumerated
MaxTextLen == 5
\* most records a backend stream carries
MaxRecords == 2
\* most items of the byte stream one 'data' chunk carries
MaxChunk == 4

---------------------------------------------------------------------------
(* Strings *)

\* characters removed by String.prototype.trim
WhiteSpace == {" ", "\n"}
\* characters the regular expression's "." does not match
LineTerminators == {"\n"}
\* characters outside the class \w
NonWord == {":", " ", "\n", ";", "/", "-", "|"}

IsWord(c) == c \notin NonWord

RECURSIVE TrimStart(_)
TrimStart(s) ==
    IF s # <<>> /\ Head(s) \in WhiteSpace THEN TrimStart(Tail(s)) ELSE s

RECURSIVE TrimEnd(_)
TrimEnd(s) ==
    IF s # <<>> /\ s[Len(s)] \in WhiteSpace
    THEN TrimEnd(SubSeq(s, 1, Len(s) - 1))
    ELSE s

\* String.prototype.trim
Trim(s) == TrimEnd(TrimStart(s))

\* String.prototype.startsWith
StartsWith(s, p) == Len(p) <= Len(s) /\ SubSeq(s, 1, Len(p)) = p

\* all strings of at most n atoms over the alphabet A
StringsUpTo(A, n) == UNION {[1..k -> A] : k \in 0..n}


---------------------------------------------------------------------------
(* The function-call pattern *)

\* length of the longest run of word characters of s starting at index i
RECURSIVE WordRun(_, _)
WordRun(s, i) ==
    IF i <= Len(s) /\ IsWord(s[i]) THEN 1 + WordRun(s, i + 1) ELSE 0

NoMatch == [matched |-> FALSE, funcName |-> <<>>, rawArgs |-> <<>>]

\* the pattern without its "^" anchor: the call is found anywhere in s
RECURSIVE functionPatternUnanchored(_)
functionPatternUnanchored(s) ==
    IF s = <<>> THEN NoMatch
    ELSE LET k == WordRun(s, 3)
             rest == SubSeq(s, 4 + k, Len(s))
         IN  IF /\ Len(s) >= 2 /\ s[1] = "FUNCTION" /\ s[2] = ":"
                /\ k >= 1
                /\ Len(s) >= 3 + k
                /\ s[3 + k] = ":"
                /\ rest # <<>>
                /\ \A i \in 1..Len(rest) : rest[i] \notin LineTerminators
             THEN [matched |-> TRUE, funcName |-> SubSeq(s, 3, 2 + k),
                   rawArgs |-> rest]
             ELSE functionPatternUnanchored(Tail(s))

\* s.match(/^FUNCTION:(\w+):(.+)$/): \w+ is greedy and cannot cross a ":",
\* ".+" needs one character at least and stops at a line terminator, and
\* "$" (no m flag) is the end of the input.
functionPattern(s) ==
    IF Len(s) >= 2 /\ s[1] = "FUNCTION" /\ s[2] = ":"
    THEN LET k == WordRun(s, 3)
             rest == SubSeq(s, 4 + k, Len(s))
         IN  IF /\ k >= 1
                /\ Len(s) >= 3 + k
                /\ s[3 + k] = ":"
                /\ rest # <<>>
                /\ \A i \in 1..Len(rest) : rest[i] \notin LineTerminators
             THEN [matched |-> TRUE, funcName |-> SubSeq(s, 3, 2 + k),
                   rawArgs |-> rest]
             ELSE NoMatch
    ELSE NoMatch

\* values of config.functionPattern: a RegExp object or a string, each of
\* the form ^PREFIX:(\w+):(.+)$ and told apart by its literal prefix, or the
\* plain object without keys that deepMerge makes of a RegExp
DefaultPattern == [kind |-> "RegExp", prefix |-> "FUNCTION"]
PlainObject == [kind |-> "object"]

\* the atoms holding a character of the class [object Object]
ObjectClass == {"FUNCTION", "CALL", "showAlert", "lookup", "hello", " "}

\* s.match(pattern).  A RegExp is used as it is and a string is compiled
\* to one; any other object is converted to a string first, so that a plain
\* object is the character class /[object Object]/, which has no groups:
\* funcName and rawArgs are undefined.
Match(s, pattern) ==
    CASE pattern.kind = "object" ->
            [matched |-> \E i \in 1..Len(s) : s[i] \in ObjectClass,
             funcName |-> <<>>, rawArgs |-> <<>>]
      [] pattern.prefix = "FUNCTION" -> functionPattern(s)
      [] OTHER ->
            IF s # <<>> /\ s[1] = pattern.prefix
            THEN functionPattern(<<"FUNCTION">> \o Tail(s))
            ELSE NoMatch

\* deepMerge(target, source) at the key functionPattern, js and v1 builds:
\* an object that is not an array is merged key by key into a copy of the
\* default, and a RegExp has no enumerable key; any other value is taken
deepMerge(target, source) ==
    IF source.kind = "RegExp" THEN PlainObject ELSE source

\* mergeWithDefaults(config): the configuration the instance keeps.  The ts
\* build spreads the user's top-level keys over the defaults.
mergeWithDefaults(b, c) ==
    IF "functionPattern" \in DOMAIN c
    THEN [c EXCEPT !.functionPattern =
                      IF b = "ts" THEN @ ELSE deepMerge(DefaultPattern, @)]
    ELSE c @@ [functionPattern |-> DefaultPattern]

---------------------------------------------------------------------------
(* FunctionRegistry *)

\* Map.prototype.has / get on the registry (a sequence in insertion order)
Has(fns, name) == \E i \in 1..Len(fns) : fns[i].name = name

get(fns, name) == fns[CHOOSE i \in 1..Len(fns) : fns[i].name = name]

\* a registry that is a plain list: every registration appends
registerAppend(fns, type, name, definition) ==
    Append(fns, definition @@ [type |-> type, name |-> name])

\* this.functions.set(name, { type, name, ...definition }): an existing key
\* keeps its place in the Map and gets the new value, a new key is appended;
\* the fields of definition come last in the object literal and win.
register(fns, type, name, definition) ==
    LET entry == definition @@ [type |-> type, name |-> name]
    IN  IF Has(fns, name)
        THEN [i \in 1..Len(fns) |->
                 IF fns[i].name = name THEN entry ELSE fns[i]]
        ELSE Append(fns, entry)

\* a listing that leaves out the entries registered without a description
getAllDescribed(fns) ==
    LET listed == SelectSeq(fns, LAMBDA e : "description" \in DOMAIN e)
    IN  [i \in 1..Len(listed) |->
            [name |-> listed[i].name, type |-> listed[i].type,
             description |-> listed[i].description]]

\* getAll(): name, type and description of every entry, in the Map's order;
\* a description that is undefined does not appear in the JSON body
getAll(fns) ==
    [i \in 1..Len(fns) |->
        IF "description" \in DOMAIN fns[i]
        THEN [name |-> fns[i].name, type |-> fns[i].type,
              description |-> fns[i].description]
        ELSE [name |-> fns[i].name, type |-> fns[i].type]]

\* the four browser functions: handler and parseArgs of each
BrowserFunction(action, field) ==
    [handler |-> [kind |-> "browser", action |-> action, field |-> field],
     parseArgs |-> "trim",
     description |-> <<"browser function: ", action>>]

registerBuiltInFunctions(fns) ==
    LET f1 == register(fns, "browser", <<"showAlert">>,
                       BrowserFunction("alert", "message"))
        f2 == register(f1, "browser", <<"openWindow">>,
                       BrowserFunction("openWindow", "url"))
        f3 == register(f2, "browser", <<"showModal">>,
                       BrowserFunction("modal", "url"))
    IN  register(f3, "browser", <<"speak">>, BrowserFunction("speak", "text"))

\* registerAPI / registerCommand / registerScript / registerN8N / registerRAG:
\* the handler is a closure over the user's definition, parseArgs is the
\* user's (possibly missing) routine
registerAPI(fns, name, def) ==
    register(fns, "api", name,
             [handler |-> [kind |-> "api", config |-> def],
              parseArgs |-> def.parseArgs])

registerCommand(fns, name, def) ==
    register(fns, "command", name,
             [handler |-> [kind |-> "command", config |-> def],
              parseArgs |-> def.parseArgs])

registerScript(fns, name, def) ==
    register(fns, "script", name,
             [handler |-> [kind |-> "script", config |-> def],
              parseArgs |-> def.parseArgs])

registerN8N(fns, name, def) ==
    register(fns, "n8n", name,
             [handler |-> [kind |-> "n8n", config |-> def],
              parseArgs |-> def.parseArgs])

registerRAG(fns, name, def) ==
    register(fns, "rag", name,
             [handler |-> [kind |-> "rag", config |-> def],
              parseArgs |-> def.parseArgs])

\* one iteration of registerUserFunctions' forEach.  A definition without a
\* type is registered as it stands in the js build ("legacy") and skipped
\* with a warning in the ts build; an unknown type is skipped in both.
registerUserFunction(b, fns, name, def) ==
    CASE def.type = "api" -> registerAPI(fns, name, def)
      [] def.type = "command" -> registerCommand(fns, name, def)
      [] def.type = "script" -> registerScript(fns, name, def)
      [] def.type = "n8n" -> registerN8N(fns, name, def)
      [] def.type = "rag" /\ b = "ts" -> registerRAG(fns, name, def)
      [] def.type = "" /\ b = "js" ->
            register(fns, "api", name,
                     [handler |-> [kind |-> "user", config |-> def],
                      parseArgs |-> def.parseArgs])
      [] OTHER -> fns

RECURSIVE registerUserFunctions(_, _, _)
registerUserFunctions(b, fns, table) ==
    IF table = <<>> THEN fns
    ELSE registerUserFunctions(
             b, registerUserFunction(b, fns, table[1].name, table[1].def),
             Tail(table))

\* new FunctionRegistry(config) followed by initializeComponents()
FunctionRegistry(b, table) ==
    registerUserFunctions(b, registerBuiltInFunctions(<<>>), table)

---------------------------------------------------------------------------
(* Argument parsers and the detector *)

\* func.parseArgs(rawArgs) for the parsers the repository defines:
\*   "trim"        (raw) => raw.trim()
\*   "placeholder" the iTunes example: trims, throws on the placeholder text
\*   "undefined"   a definition without parseArgs: the call is a TypeError
parseArgs(parser, raw) ==
    CASE parser = "trim" -> [threw |-> FALSE, value |-> Trim(raw)]
      [] parser = "placeholder" ->
            IF Trim(raw) = <<"search_term">>
            THEN [threw |-> TRUE, value |-> <<>>]
            ELSE [threw |-> FALSE, value |-> Trim(raw)]
      [] OTHER -> [threw |-> TRUE, value |-> <<>>]

NoCall == [found |-> FALSE, function |-> <<>>, args |-> <<>>, parsed |-> <<>>]

\* the detector without the "if (func)" test: a matching text is a call
\* whether or not its name is registered
detectFunctionCallNoLookup(fns, text) ==
    LET match == functionPattern(Trim(text))
    IN  IF match.matched
        THEN [found |-> TRUE, function |-> match.funcName,
              args |-> Trim(match.rawArgs), parsed |-> <<>>]
        ELSE NoCall

\* the detector without its try/catch: a parser's exception does not stop
\* the call, which goes on with the raw argument text
detectFunctionCallNoCatch(fns, text) ==
    LET match == functionPattern(Trim(text))
    IN  IF match.matched /\ Has(fns, match.funcName)
        THEN LET func == get(fns, match.funcName)
                 args == parseArgs(func.parseArgs, match.rawArgs)
                 call == [name |-> match.funcName, raw |-> match.rawArgs]
             IN  [found |-> TRUE, function |-> match.funcName,
                  args |-> IF args.threw THEN match.rawArgs ELSE args.value,
                  parsed |-> <<call>>]
        ELSE NoCall

\* detectFunctionCall(text); "parsed" lists the parseArgs invocations made
detectFunctionCall(fns, text) ==
    LET match == Match(Trim(text), config.functionPattern)
    IN  IF match.matched /\ Has(fns, match.funcName)
        THEN LET func == get(fns, match.funcName)
                 args == parseArgs(func.parseArgs, match.rawArgs)
                 call == [name |-> match.funcName, raw |-> match.rawArgs]
             IN  IF args.threw
                 THEN [NoCall EXCEPT !.parsed = <<call>>]
                 ELSE [found |-> TRUE, function |-> match.funcName,
                       args |-> args.value, parsed |-> <<call>>]
        ELSE NoCall

---------------------------------------------------------------------------
(* Handler executors *)

Failure(msg) == [success |-> FALSE, error |-> msg]

Returned(value, spawned) ==
    [threw |-> FALSE, value |-> value, error |-> <<>>, spawned |-> spawned]

Thrown(msg) ==
    [threw |-> TRUE, value |-> [isNull |-> TRUE], error |-> msg, spawned |-> 0]

\* JSON null / undefined as a handler's value
IsNullish(r) == "isNull" \in DOMAIN r

\* what the outside world can do during one invocation of each handler kind
ExtOutcomes(kind) ==
    CASE kind = "browser" -> {"none"}
      [] kind = "api" -> {"endpointThrows", "bodyThrows", "fetchRejects",
                          "http500", "nonJson", "nonJsonAsJson", "jsonNull",
                          "jsonObject", "jsonResults"}
      [] kind = "command" -> {"commandThrows", "exit0", "execError"}
      [] kind = "script" -> {"returns", "throws"}
      [] kind = "n8n" -> {"fetchRejects", "http200", "http500"}
      [] kind = "rag" -> {"queryThrows", "documents", "empty", "storeError"}
      [] OTHER -> {"browserAction", "results", "data", "failure", "throws"}

\* a browser handler that tags every result with the action "alert"
browserHandlerAlertOnly(h, args) ==
    Returned([success |-> TRUE, browserAction |-> "alert",
              data |-> [field |-> h.field, value |-> args]], 0)

\* browser functions: async (x) => ({ success: true, browserAction, data })
browserHandler(h, args) ==
    Returned([success |-> TRUE, browserAction |-> h.action,
              data |-> [field |-> h.field, value |-> args]], 0)

\* config.transform(data, args) of the README's api example:
\* (data, query) => ({ success: true, results: data.results, searchTerm })
transform(data, args) ==
    IF IsNullish(data)
    THEN [threw |-> TRUE, value |-> data]
    ELSE [threw |-> FALSE,
          value |-> IF "results" \in DOMAIN data
                    THEN [success |-> TRUE, results |-> data.results,
                          searchTerm |-> args]
                    ELSE [success |-> TRUE, searchTerm |-> args]]

\* the response body of a 2xx answer, parsed
ParsedBody(ext) ==
    CASE ext = "jsonNull" -> [isNull |-> TRUE]
      [] ext = "jsonResults" -> [results |-> <<"item">>, resultCount |-> 1]
      [] OTHER -> [resultCount |-> 0]

\* the outcomes in which the response is 2xx and its body is no JSON text;
\* "nonJsonAsJson" declares Content-Type: application/json all the same
NonJsonOutcomes == {"nonJson", "nonJsonAsJson"}

\* a handler's outcome together with the number of calls of config.transform
WithTransformCalls(out, n) == out @@ [transformCalls |-> n]

\* registerAPI's handler reading the body by the declared content type:
\* response.json() for application/json, whose SyntaxError reaches the
\* outer catch
apiHandlerByContentType(h, args, ext) ==
    CASE ext = "endpointThrows" ->
            WithTransformCalls(
                Returned(Failure(<<"endpoint builder failed">>), 0), 0)
      [] ext = "bodyThrows" ->
            WithTransformCalls(Returned(Failure(<<"body builder failed">>), 0), 0)
      [] ext = "fetchRejects" ->
            WithTransformCalls(Returned(Failure(<<"fetch failed">>), 0), 0)
      [] ext = "http500" ->
            WithTransformCalls(
                Returned(Failure(<<"HTTP 500: ", "Internal Server Error">>), 0), 0)
      [] ext = "nonJson" ->
            WithTransformCalls(
                Returned(Failure(<<"Invalid response format">>), 0), 0)
      [] ext = "nonJsonAsJson" ->
            WithTransformCalls(Returned(Failure(<<"Unexpected token">>), 0), 0)
      [] OTHER ->
            LET data == ParsedBody(ext)
            IN  IF h.config.transform
                THEN LET t == transform(data, args)
                     IN  IF t.threw
                         THEN WithTransformCalls(
                                  Returned(Failure(
                                      <<"Cannot read properties of null">>), 0), 1)
                         ELSE WithTransformCalls(Returned(t.value, 0), 1)
                ELSE WithTransformCalls(Returned(data, 0), 0)

\* registerAPI's handler: the body is read as text and parsed whatever the
\* response's content type
apiHandler(h, args, ext) ==
    CASE ext = "endpointThrows" ->
            WithTransformCalls(
                Returned(Failure(<<"endpoint builder failed">>), 0), 0)
      [] ext = "bodyThrows" ->
            WithTransformCalls(Returned(Failure(<<"body builder failed">>), 0), 0)
      [] ext = "fetchRejects" ->
            WithTransformCalls(Returned(Failure(<<"fetch failed">>), 0), 0)
      [] ext = "http500" ->
            WithTransformCalls(
                Returned(Failure(<<"HTTP 500: ", "Internal Server Error">>), 0), 0)
      [] ext \in NonJsonOutcomes ->
            WithTransformCalls(
                Returned(Failure(<<"Invalid response format">>), 0), 0)
      [] OTHER ->
            LET data == ParsedBody(ext)
            IN  IF h.config.transform
                THEN LET t == transform(data, args)
                     IN  IF t.threw
                         THEN WithTransformCalls(
                                  Returned(Failure(
                                      <<"Cannot read properties of null">>), 0), 1)
                         ELSE WithTransformCalls(Returned(t.value, 0), 1)
                ELSE WithTransformCalls(Returned(data, 0), 0)

\* typeof config.command === 'function' ? config.command(args) : config.command
Command(c, args) == IF c.dynamic THEN c.command \o args ELSE c.command

\* an allow-list whose entries must equal the whole command
NotAllowedExact(c, command) ==
    /\ c.allowedCommands.present
    /\ ~ \E i \in 1..Len(c.allowedCommands.list) :
            command = c.allowedCommands.list[i]

\* config.allowedCommands && !config.allowedCommands.some(cmd => command.startsWith(cmd))
\* (an empty array is truthy: it rejects every command)
NotAllowed(c, command) ==
    /\ c.allowedCommands.present
    /\ ~ \E i \in 1..Len(c.allowedCommands.list) :
            StartsWith(command, c.allowedCommands.list[i])

\* registerCommand's handler without the check of the security flag
commandHandlerNoGate(h, args, security, ext) ==
    LET c == h.config
        command == Command(c, args)
        shown == IF c.dynamic THEN <<"dynamic">> ELSE c.command
    IN  IF ext = "commandThrows" /\ c.dynamic
        THEN Returned(Failure(<<"command builder failed">>)
                        @@ [command |-> shown], 0)
        ELSE IF NotAllowed(c, command)
        THEN Returned(Failure(<<"Command not allowed: ">> \o command)
                        @@ [command |-> shown], 0)
        ELSE IF ext = "exit0"
        THEN Returned([success |-> TRUE, stdout |-> <<"out">>,
                       stderr |-> <<>>, command |-> command], 1)
        ELSE Returned(Failure(<<"Command failed: ">> \o command)
                        @@ [command |-> shown], 1)

\* registerCommand's handler with the allow-list checked after the process
\* has run
commandHandlerSpawnFirst(h, args, security, ext) ==
    LET c == h.config
        command == Command(c, args)
        shown == IF c.dynamic THEN <<"dynamic">> ELSE c.command
    IN  IF ~ security.allowCommands
        THEN Returned(Failure(<<"Command execution is disabled for security">>)
                        @@ [command |-> shown], 0)
        ELSE IF ext = "commandThrows" /\ c.dynamic
        THEN Returned(Failure(<<"command builder failed">>)
                        @@ [command |-> shown], 0)
        ELSE IF NotAllowed(c, command)
        THEN Returned(Failure(<<"Command not allowed: ">> \o command)
                        @@ [command |-> shown], 1)
        ELSE IF ext = "exit0"
        THEN Returned([success |-> TRUE, stdout |-> <<"out">>,
                       stderr |-> <<>>, command |-> command], 1)
        ELSE Returned(Failure(<<"Command failed: ">> \o command)
                        @@ [command |-> shown], 1)

\* registerCommand's handler
commandHandler(h, args, security, ext) ==
    LET c == h.config
        command == Command(c, args)
        shown == IF c.dynamic THEN <<"dynamic">> ELSE c.command
    IN  IF ~ security.allowCommands
        THEN Returned(Failure(<<"Command execution is disabled for security">>)
                        @@ [command |-> shown], 0)
        ELSE IF ext = "commandThrows" /\ c.dynamic
        THEN Returned(Failure(<<"command builder failed">>)
                        @@ [command |-> shown], 0)
        ELSE IF NotAllowed(c, command)
        THEN Returned(Failure(<<"Command not allowed: ">> \o command)
                        @@ [command |-> shown], 0)
        ELSE IF ext = "exit0"
        THEN Returned([success |-> TRUE, stdout |-> <<"out">>,
                       stderr |-> <<>>, command |-> command], 1)
        ELSE Returned(Failure(<<"Command failed: ">> \o command)
                        @@ [command |-> shown], 1)

\* a handler's outcome together with the number of calls of the script body
WithScriptCalls(out, n) == out @@ [scriptCalls |-> n]

\* registerScript's handler without its try/catch: an exception of the
\* script body (or the security error) rejects the promise
scriptHandlerNoCatch(h, args, security, ext) ==
    IF ~ security.allowScripts
    THEN WithScriptCalls(
             Thrown(<<"Script execution is disabled for security">>), 0)
    ELSE IF ext = "throws"
    THEN WithScriptCalls(Thrown(<<"script error">>), 1)
    ELSE WithScriptCalls(Returned([success |-> TRUE, result |-> args], 0), 1)

\* registerScript's handler gated by the command flag instead of the
\* script flag
scriptHandlerCommandFlag(h, args, security, ext) ==
    IF ~ security.allowCommands
    THEN WithScriptCalls(
             Returned(Failure(<<"Script execution is disabled for security">>)
                        @@ [stack |-> <<"stack">>], 0), 0)
    ELSE IF ext = "throws"
    THEN WithScriptCalls(
             Returned(Failure(<<"script error">>) @@ [stack |-> <<"stack">>], 0),
             1)
    ELSE WithScriptCalls(Returned([success |-> TRUE, result |-> args], 0), 1)

\* registerScript's handler
scriptHandler(h, args, security, ext) ==
    IF ~ security.allowScripts
    THEN WithScriptCalls(
             Returned(Failure(<<"Script execution is disabled for security">>)
                        @@ [stack |-> <<"stack">>], 0), 0)
    ELSE IF ext = "throws"
    THEN WithScriptCalls(
             Returned(Failure(<<"script error">>) @@ [stack |-> <<"stack">>], 0),
             1)
    ELSE WithScriptCalls(Returned([success |-> TRUE, result |-> args], 0), 1)

\* registerN8N's handler
n8nHandler(h, args, cfg, ext) ==
    IF ~ (h.config.endpoint \/ cfg.n8n)
    THEN Returned(Failure(<<"N8N endpoint not configured">>)
                    @@ [workflow |-> h.config.webhookId], 0)
    ELSE IF ext = "fetchRejects"
    THEN Returned(Failure(<<"fetch failed">>)
                    @@ [workflow |-> h.config.webhookId], 0)
    ELSE IF ext = "http500"
    THEN Returned(Failure(<<"N8N workflow failed: ", "500">>)
                    @@ [workflow |-> h.config.webhookId], 0)
    ELSE Returned([success |-> TRUE, workflow |-> h.config.webhookId,
                   result |-> <<"ok">>], 0)

\* registerRAG's handler (ts build); results.documents is what the store
\* answered, a list of document texts
ragHandler(h, args, cfg, ext) ==
    IF ~ cfg.chroma
    THEN Returned(Failure(<<"ChromaDB endpoint not configured">>), 0)
    ELSE IF ext = "queryThrows"
    THEN Returned(Failure(<<"query builder failed">>), 0)
    ELSE IF ext = "storeError"
    THEN Returned(Failure(<<"store unreachable">>), 0)
    ELSE IF ext = "empty"
    THEN Returned([success |-> TRUE, results |-> <<>>], 0)
    ELSE Returned([success |-> TRUE, results |-> <<"doc1", "doc2">>], 0)

\* a handler the user supplied directly (js build, definition without type):
\* it may return any result shape, or throw
userHandler(h, args, ext) ==
    CASE ext = "browserAction" ->
            Returned([success |-> TRUE, browserAction |-> "alert",
                      data |-> [field |-> "message", value |-> args]], 0)
      [] ext = "results" ->
            Returned([success |-> TRUE, results |-> <<"item">>,
                      totalResults |-> 1], 0)
      [] ext = "data" -> Returned([success |-> TRUE, data |-> args], 0)
      [] ext = "failure" -> Returned(Failure(<<"Search failed: ", "timeout">>), 0)
      [] OTHER -> Thrown(<<"handler exception">>)

\* func.handler(args): the promise's outcome and the processes it spawned
handler(func, args, cfg, ext) ==
    LET h == func.handler
    IN  CASE h.kind = "browser" -> browserHandler(h, args)
          [] h.kind = "api" -> apiHandler(h, args, ext)
          [] h.kind = "command" -> commandHandler(h, args, cfg.security, ext)
          [] h.kind = "script" -> scriptHandler(h, args, cfg.security, ext)
          [] h.kind = "n8n" -> n8nHandler(h, args, cfg, ext)
          [] h.kind = "rag" -> ragHandler(h, args, cfg, ext)
          [] OTHER -> userHandler(h, args, ext)

---------------------------------------------------------------------------
(* Configuration *)

\* "FUNCTION:" + name + ":" + args
Call(name, args) == <<"FUNCTION", ":">> \o name \o <<":">> \o args

\* config.functions: the definitions of the README and of the examples
searchData == [type |-> "api", parseArgs |-> "trim", transform |-> TRUE]
getWeather == [type |-> "api", parseArgs |-> "trim", transform |-> FALSE]
pingHost ==
    [type |-> "command", parseArgs |-> "trim", dynamic |-> TRUE,
     command |-> <<"ping", " ">>,
     allowedCommands |-> [present |-> TRUE, list |-> << <<"ping">>, <<"nslookup">> >>]]
runCommand ==
    [type |-> "command", parseArgs |-> "trim", dynamic |-> TRUE,
     command |-> <<>>,
     allowedCommands |-> [present |-> TRUE, list |-> << <<"ping">> >>]]
getSystemInfo ==
    [type |-> "command", parseArgs |-> "trim", dynamic |-> FALSE,
     command |-> <<"uname">>,
     allowedCommands |-> [present |-> FALSE, list |-> <<>>]]
lockedCommand ==
    [type |-> "command", parseArgs |-> "trim", dynamic |-> TRUE,
     command |-> <<>>,
     allowedCommands |-> [present |-> TRUE, list |-> <<>>]]
calculateStats == [type |-> "script", parseArgs |-> "trim"]
createTicket ==
    [type |-> "n8n", parseArgs |-> "trim", endpoint |-> FALSE,
     webhookId |-> "support-ticket"]
searchMusic == [type |-> "", parseArgs |-> "placeholder"]
searchDocs == [type |-> "rag", parseArgs |-> "trim"]

UserFunctions ==
    << [name |-> <<"searchData">>, def |-> searchData],
       [name |-> <<"getWeather">>, def |-> getWeather],
       [name |-> <<"pingHost">>, def |-> pingHost],
       [name |-> <<"runCommand">>, def |-> runCommand],
       [name |-> <<"getSystemInfo">>, def |-> getSystemInfo],
       [name |-> <<"lockedCommand">>, def |-> lockedCommand],
       [name |-> <<"calculateStats">>, def |-> calculateStats],
       [name |-> <<"createTicket">>, def |-> createTicket],
       [name |-> <<"searchMusic">>, def |-> searchMusic],
       [name |-> <<"searchDocs">>, def |-> searchDocs] >>

\* v1 build, registerBrowserFunctions: { ...this.config.functions, ...browserFunctions }
registerBrowserFunctions(fns) ==
    LET f1 == register(fns, "", <<"showAlert">>,
                       BrowserFunction("alert", "message"))
        f2 == register(f1, "", <<"openWindow">>,
                       BrowserFunction("openWindow", "url"))
        f3 == register(f2, "", <<"showModal">>,
                       BrowserFunction("modal", "url"))
    IN  register(f3, "", <<"speak">>, BrowserFunction("speak", "text"))

\* v1 build, validateConfiguration: every definition needs a handler and a
\* parseArgs that are functions; the definitions with a handler of their
\* own are those without a type
validateConfiguration(table) ==
    \A i \in 1..Len(table) :
        table[i].def.type = "" /\ table[i].def.parseArgs # "undefined"

\* v1 build: config.functions as the user wrote it, then the browser
\* functions spread over it
FunctionsV1(table) ==
    registerBrowserFunctions(
        [i \in 1..Len(table) |->
            [name |-> table[i].name, type |-> "",
             handler |-> [kind |-> "user", config |-> table[i].def],
             parseArgs |-> table[i].def.parseArgs]])

\* the configuration object of the iTunes example
ITunesFunctions == << [name |-> <<"searchMusic">>, def |-> searchMusic] >>

\* the configuration object a test instance is constructed with: the
\* functions of the README (of the iTunes example in v1) unless the caller
\* names its own
UserConfig(b, c) ==
    c @@ [functions |-> IF b = "v1" THEN ITunesFunctions ELSE UserFunctions]

\* the merged configurations a process is started with
Configs ==
    [security : [allowCommands : BOOLEAN, allowScripts : BOOLEAN],
     n8n : {TRUE}, chroma : BOOLEAN]

\* the chat messages of the requests
Messages ==
    { <<"hello">>,
      <<"hello", " ">> \o Call(<<"showAlert">>, <<"x">>),
      Call(<<"nosuch">>, <<"x">>),
      Call(<<"getSystemInfo">>, <<>>),
      Call(<<"searchMusic">>, <<"search_term">>),
      <<"FUNCTION", ":", "showAlert">>,
      <<"FUNCTION", ":", " ", "showAlert", ":", "x">>,
      Call(<<"showAlert">>, <<"a", "\n", "b">>),
      <<" ">> \o Call(<<"showAlert">>, <<"Build", " ", "complete">>) \o <<"\n">>,
      Call(<<"speak">>, <<"a", ":", "b">>),
      Call(<<"openWindow">>, <<"https", ":", "/", "/", "example">>),
      Call(<<"showModal">>, <<"https", ":", "/", "/", "example">>),
      Call(<<"searchData">>, <<"x">>),
      Call(<<"getWeather">>, <<"London">>),
      Call(<<"pingHost">>, <<"host">>),
      Call(<<"runCommand">>, <<"rm", " ", "-", "rf", " ", "/">>),
      Call(<<"runCommand">>, <<"ping", ";", " ", "rm">>),
      Call(<<"getSystemInfo">>, <<"now">>),
      Call(<<"lockedCommand">>, <<"ping">>),
      Call(<<"calculateStats">>, <<"1">>),
      Call(<<"createTicket">>, <<"title", "|", "text">>),
      Call(<<"searchMusic">>, <<"jazz">>),
      Call(<<"searchDocs">>, <<"x">>) }

---------------------------------------------------------------------------
(* Stream events *)

Token(text) == [type |-> "token", text |-> text]
Status(text) == [type |-> "status", text |-> text]
Done == [type |-> "done"]
Error(msg) == [type |-> "error", error |-> msg]
BrowserAction(action, data) ==
    [type |-> "browser_action", action |-> action, data |-> data]
FunctionResult(data) == [type |-> "function_result", data |-> data]

\* data.message / data.url / data.text in a template string
Property(data, f) == IF data.field = f THEN data.value ELSE <<"undefined">>

getBrowserActionConfirmation(action, data) ==
    CASE action = "alert" ->
            <<"Alert displayed: \"">> \o Property(data, "message") \o <<"\"">>
      [] action = "openWindow" ->
            <<"Opening new tab: ">> \o Property(data, "url")
      [] action = "modal" ->
            <<"Opening modal with: ">> \o Property(data, "url")
      [] action = "speak" ->
            <<"Speaking: \"">> \o Property(data, "text") \o <<"\"">>
      [] OTHER -> <<"Browser action completed: ", action>>

\* result.success is truthy
Success(r) == "success" \in DOMAIN r /\ r.success

\* the events the function-call branch of the route writes for a handler
\* outcome, the status event excepted: a thrown error (or a property read
\* on a null result) goes to the catch block, which writes an error event
ResultEvents(out) ==
    LET r == out.value
    IN  IF out.threw THEN <<Error(out.error)>>
        ELSE IF IsNullish(r)
        THEN <<Error(<<"Cannot read properties of null">>)>>
        ELSE IF Success(r) /\ "browserAction" \in DOMAIN r
        THEN <<BrowserAction(r.browserAction, r.data),
               Token(getBrowserActionConfirmation(r.browserAction, r.data)),
               Done>>
        ELSE IF "results" \in DOMAIN r \/ Success(r)
        THEN <<FunctionResult(r), Done>>
        ELSE <<Done>>

---------------------------------------------------------------------------
(* The backend's stream of newline-delimited JSON records *)

\* the text an LLM reply carries when it asks for a function
CallText == Call(<<"showAlert">>, <<"x">>)

ResponseTexts == {<<>>, <<"Hi">>, CallText}

Records == [response : ResponseTexts, done : BOOLEAN]

\* The bytes of a record are modelled as two halves, so that a chunk can
\* end in the middle of a record; "NL" is the newline after a record.
NoRecord == [response |-> <<>>, done |-> FALSE]
NL == [part |-> "NL", rec |-> NoRecord]
Bytes(r) == <<[part |-> "L", rec |-> r], [part |-> "R", rec |-> r]>>

RECURSIVE Serialize(_)
Serialize(rs) ==
    IF rs = <<>> THEN <<>> ELSE Bytes(Head(rs)) \o <<NL>> \o Serialize(Tail(rs))

\* the byte streams a backend sends: records, the last one with or
\* without its newline
Wires ==
    LET seqs == UNION {[1..k -> Records] : k \in 0..MaxRecords}
    IN  {Serialize(rs) : rs \in seqs}
          \cup {SubSeq(Serialize(rs), 1, Len(Serialize(rs)) - 1) :
                  rs \in seqs \ {<<>>}}

\* s.split('\n'): the pieces between newlines, the last piece included
RECURSIVE Split(_, _)
Split(s, cur) ==
    IF s = <<>> THEN <<cur>>
    ELSE IF Head(s).part = "NL" THEN <<cur>> \o Split(Tail(s), <<>>)
    ELSE Split(Tail(s), Append(cur, Head(s)))

\* JSON.parse(line) succeeds on one whole record and throws otherwise
Parses(line) ==
    /\ Len(line) = 2
    /\ line[1].part = "L"
    /\ line[2].part = "R"
    /\ line[1].rec = line[2].rec

\* the for loop of the 'data' callback over the lines: the events written
\* and whether a done record made the callback return
RECURSIVE ProcessLines(_, _)
ProcessLines(lines, events) ==
    IF lines = <<>> THEN [events |-> events, done |-> FALSE]
    ELSE LET line == Head(lines)
         IN  IF line # <<>> /\ Parses(line)
             THEN LET parsed == line[1].rec
                      tok == IF parsed.response # <<>>
                             THEN <<Token(parsed.response)>>
                             ELSE <<>>
                  IN  IF parsed.done
                      THEN [events |-> events \o tok \o <<Done>>, done |-> TRUE]
                      ELSE ProcessLines(Tail(lines), events \o tok)
             ELSE ProcessLines(Tail(lines), events)

\* the 'data' callback without its buffer: every chunk is split and parsed
\* on its own
DataJSUnbuffered(buf, chunk) ==
    LET p == ProcessLines(Split(chunk, <<>>), <<>>)
    IN  [events |-> p.events, done |-> p.done, buffer |-> buf]

\* js build: buffer += chunk; lines = buffer.split('\n'); buffer = lines.pop()
DataJS(buf, chunk) ==
    LET lines == Split(buf \o chunk, <<>>)
        p == ProcessLines(SubSeq(lines, 1, Len(lines) - 1), <<>>)
    IN  [events |-> p.events, done |-> p.done, buffer |-> lines[Len(lines)]]

\* ts build: lines = chunk.toString().split('\n'), every piece is parsed
DataTS(buf, chunk) ==
    LET p == ProcessLines(Split(chunk, <<>>), <<>>)
    IN  [events |-> p.events, done |-> p.done, buffer |-> buf]

---------------------------------------------------------------------------
(* The js build: POST /api/v1/chat/stream *)

Null == [isNull |-> TRUE]

\* the requests that run side by side
Requests == {1, 2}

\* one request before the route has been entered: its response (the events
\* written to it, each with the request whose callback wrote it), the
\* closure of streamLLMResponse (buffer) and the backend's body
IdleFlight ==
    [wire |-> <<>>, pos |-> 0, buffer |-> <<>>, log |-> <<>>,
     stream |-> "none", ended |-> FALSE]

NoFlights == [r \in Requests |-> IdleFlight]

\* the chat client when the page has loaded: the reducer's initialState,
\* an empty input field, the closure of the first render and no
\* sendMessage call made yet
NoClient ==
    [isStreaming |-> FALSE, messages |-> <<>>, message |-> <<>>,
     rendered |-> [isStreaming |-> FALSE, message |-> <<>>],
     calls |-> <<>>]

\* the state after construction of the framework, before any request
Start(b, t, c) ==
    /\ build = b
    /\ transport = t
    /\ userConfig = UserConfig(b, c)
    /\ config = mergeWithDefaults(b, userConfig)
    /\ b = "v1" => validateConfiguration(config.functions)
    /\ functions = IF b = "v1" THEN FunctionsV1(config.functions)
                   ELSE FunctionRegistry(b, config.functions)
    /\ pc = "idle"
    /\ message = <<>>
    /\ functionCall = NoCall
    /\ parserCalls = <<>>
    /\ handlerCalls = <<>>
    /\ spawnCount = 0
    /\ result = Null
    /\ ragContext = <<>>
    /\ log = <<>>
    /\ lost = <<>>
    /\ ended = FALSE
    /\ endCalls = 0
    /\ acked = FALSE
    /\ eventsAtAck = 0
    /\ wire = <<>>
    /\ pos = 0
    /\ buffer = <<>>
    /\ stream = "none"
    /\ settled = "none"
    /\ timer = "none"
    /\ late = <<>>
    /\ flights = NoFlights
    /\ connectTimer = "none"
    /\ client = NoClient

Init == \E c \in Configs : ~ c.chroma /\ Start("js", "http", c)

\* The route handler up to its first await: writeHead, detectFunctionCall,
\* then either the status event and the call of func.handler, or the call
\* of streamLLMResponse (which awaits fetch).
ChatStream(m) ==
    /\ pc = "idle"
    /\ LET call == detectFunctionCall(functions, m)
       IN  /\ message' = m
           /\ functionCall' = call
           /\ parserCalls' = parserCalls \o call.parsed
           /\ IF call.found
              THEN /\ log' = Append(log, Status(<<"Processing your request...">>))
                   /\ pc' = "awaitHandler"
              ELSE /\ log' = log
                   /\ pc' = "awaitFetch"
    /\ UNCHANGED <<userConfig, connectTimer, client, flights, timer, late, build, transport, config, functions, handlerCalls,
                   spawnCount, result, ragContext, lost, ended, endCalls,
                   acked, eventsAtAck, wire, pos, buffer, stream, settled>>

\* a function-call branch that calls the handler a second time when the
\* first call failed (a rejection, null or a result without success)
HandlerSettlesRetry(ext) ==
    /\ pc = "awaitHandler"
    /\ LET func == get(functions, functionCall.function)
           out == handler(func, functionCall.args, config, ext)
           failed == out.threw \/ IsNullish(out.value) \/ ~ Success(out.value)
       IN  /\ ext \in ExtOutcomes(func.handler.kind)
           /\ handlerCalls' =
                 handlerCalls \o IF failed
                                 THEN <<functionCall.function,
                                        functionCall.function>>
                                 ELSE <<functionCall.function>>
           /\ spawnCount' = spawnCount + out.spawned
           /\ result' = out.value
           /\ log' = log \o ResultEvents(out)
    /\ ended' = TRUE
    /\ endCalls' = endCalls + 1
    /\ pc' = "returned"
    /\ UNCHANGED <<userConfig, connectTimer, client, flights, timer, late, build, transport, config, functions, message,
                   functionCall, parserCalls, ragContext, lost, acked,
                   eventsAtAck, wire, pos, buffer, stream, settled>>

\* func.handler(functionCall.args) settles and the function-call branch
\* runs to its end: the result's events, then res.end().
HandlerSettles(ext) ==
    /\ pc = "awaitHandler"
    /\ LET func == get(functions, functionCall.function)
           out == handler(func, functionCall.args, config, ext)
       IN  /\ ext \in ExtOutcomes(func.handler.kind)
           /\ handlerCalls' = Append(handlerCalls, functionCall.function)
           /\ spawnCount' = spawnCount + out.spawned
           /\ result' = out.value
           /\ log' = log \o ResultEvents(out)
    /\ ended' = TRUE
    /\ endCalls' = endCalls + 1
    /\ pc' = "returned"
    /\ UNCHANGED <<userConfig, connectTimer, client, flights, timer, late, build, transport, config, functions, message, functionCall,
                   parserCalls, ragContext, lost, acked, eventsAtAck, wire,
                   pos, buffer, stream, settled>>

\* streamLLMResponse: the fetch of the backend settles.  A rejection or a
\* non-2xx status throws into the route's outer catch (error event,
\* res.end()); otherwise the callbacks are attached to response.body.
FetchSettles(outcome, w) ==
    /\ pc = "awaitFetch"
    /\ IF outcome = "ok"
       THEN /\ wire' = w
            /\ stream' = "open"
            /\ settled' = "pending"
            /\ pc' = "streaming"
            /\ UNCHANGED <<log, ended, endCalls>>
       ELSE /\ w = <<>>
            /\ log' = Append(log, Error(<<"LLM API error: ", outcome>>))
            /\ ended' = TRUE
            /\ endCalls' = endCalls + 1
            /\ pc' = "returned"
            /\ UNCHANGED <<wire, stream, settled>>
    /\ UNCHANGED <<userConfig, connectTimer, client, flights, timer, late, build, transport, config, functions, message, functionCall,
                   parserCalls, handlerCalls, spawnCount, result, ragContext,
                   lost, acked, eventsAtAck, pos, buffer>>

\* response.body.on('data'): the next n items of the wire arrive as one
\* chunk.  The callback stays attached after the promise has settled.
OnData(n) ==
    /\ stream = "open"
    /\ pos + n <= Len(wire)
    /\ LET d == DataJS(buffer, SubSeq(wire, pos + 1, pos + n))
       IN  /\ buffer' = d.buffer
           /\ log' = log \o d.events
           /\ late' = IF ended THEN late \o [i \in 1..Len(d.events) |-> "data"]
                      ELSE late
           /\ IF d.done
              THEN /\ ended' = TRUE
                   /\ endCalls' = endCalls + 1
                   /\ settled' = IF settled = "pending" THEN "resolved" ELSE settled
                   /\ pc' = IF settled = "pending" THEN "returned" ELSE pc
              ELSE UNCHANGED <<ended, endCalls, settled, pc>>
    /\ pos' = pos + n
    /\ UNCHANGED <<userConfig, connectTimer, client, flights, timer, build, transport, config, functions, message, functionCall,
                   parserCalls, handlerCalls, spawnCount, result, ragContext,
                   lost, acked, eventsAtAck, wire, stream>>

\* the 'end' callback without its write of done and its res.end()
OnEndNoClose ==
    /\ stream = "open"
    /\ pos = Len(wire)
    /\ stream' = "ended"
    /\ settled' = IF settled = "pending" THEN "resolved" ELSE settled
    /\ pc' = IF settled = "pending" THEN "returned" ELSE pc
    /\ UNCHANGED <<userConfig, connectTimer, client, flights, timer, late, build, transport, config, functions, message, functionCall,
                   parserCalls, handlerCalls, spawnCount, result, ragContext,
                   log, lost, ended, endCalls, acked, eventsAtAck, wire, pos,
                   buffer>>

\* response.body.on('end'), after the last chunk
OnEnd ==
    /\ stream = "open"
    /\ pos = Len(wire)
    /\ stream' = "ended"
    /\ IF ~ ended
       THEN /\ log' = Append(log, Done)
            /\ ended' = TRUE
            /\ endCalls' = endCalls + 1
       ELSE UNCHANGED <<log, ended, endCalls>>
    /\ settled' = IF settled = "pending" THEN "resolved" ELSE settled
    /\ pc' = IF settled = "pending" THEN "returned" ELSE pc
    /\ UNCHANGED <<userConfig, connectTimer, client, flights, timer, late, build, transport, config, functions, message, functionCall,
                   parserCalls, handlerCalls, spawnCount, result, ragContext,
                   lost, acked, eventsAtAck, wire, pos, buffer>>

\* response.body.on('error', reject): a pending promise rejects into the
\* route's outer catch; a settled one ignores it.
OnError ==
    /\ stream = "open"
    /\ stream' = "errored"
    /\ IF settled = "pending"
       THEN /\ settled' = "rejected"
            /\ log' = Append(log, Error(<<"socket hang up">>))
            /\ ended' = TRUE
            /\ endCalls' = endCalls + 1
            /\ pc' = "returned"
       ELSE UNCHANGED <<settled, log, ended, endCalls, pc>>
    /\ UNCHANGED <<userConfig, connectTimer, client, flights, timer, late, build, transport, config, functions, message, functionCall,
                   parserCalls, handlerCalls, spawnCount, result, ragContext,
                   lost, acked, eventsAtAck, wire, pos, buffer>>

Next ==
    \/ \E m \in Messages : ChatStream(m)
    \/ \E ext \in UNION {ExtOutcomes(k) : k \in {"browser", "api", "command",
                            "script", "n8n", "rag", "user"}} : HandlerSettles(ext)
    \/ \E outcome \in {"ok", "500", "ECONNREFUSED"}, w \in Wires :
          FetchSettles(outcome, w)
    \/ \E n \in 1..MaxChunk : OnData(n)
    \/ OnEnd
    \/ OnError

Spec == Init /\ [][Next]_vars

\* The scheduling of the runtime: a pending handler promise settles, a
\* pending fetch settles, and an open backend stream delivers its chunks
\* and then ends or fails.
Fairness ==
    /\ WF_vars(\E ext \in UNION {ExtOutcomes(k) : k \in {"browser", "api",
                  "command", "script", "n8n", "rag", "user"}} : HandlerSettles(ext))
    /\ WF_vars(\E outcome \in {"ok", "500", "ECONNREFUSED"}, w \in Wires :
                  FetchSettles(outcome, w))
    /\ WF_vars((\E n \in 1..MaxChunk : OnData(n)) \/ OnEnd \/ OnError)

\* the security settings of the README's configuration example
InitReadme ==
    Start("js", "http",
          [security |-> [allowCommands |-> TRUE, allowScripts |-> FALSE],
           n8n |-> TRUE, chroma |-> FALSE])

FairSpec == InitReadme /\ [][Next]_vars /\ Fairness

---------------------------------------------------------------------------
(* Properties of the js build's streaming endpoint *)

IsTerminal(e) == e.type \in {"done", "error"}

Terminals(events) == {i \in 1..Len(events) : IsTerminal(events[i])}

\* sub occurs in s
Contains(s, sub) ==
    \E i \in 0..(Len(s) - Len(sub)) : SubSeq(s, i + 1, i + Len(sub)) = sub

\* the function-call branch was taken / the message went to the backend
Dispatching == pc = "awaitHandler" \/ (pc = "returned" /\ functionCall.found)
Forwarding ==
    pc \in {"awaitFetch", "streaming"} \/ (pc = "returned" /\ ~ functionCall.found)

\* C1: the recorded event log of a request holds at most one terminal event
\* (done, or an error in its place), nothing is written after it, and a
\* handled request has exactly one.
TerminalEventInvariant ==
    /\ Cardinality(Terminals(log)) <= 1
    /\ \A i \in Terminals(log) : i = Len(log)
    /\ pc = "returned" => Cardinality(Terminals(log)) = 1

\* C2: a detected call whose executor returned a Failure result yields
\* exactly one error event, carrying the executor's message, and the stream
\* is terminated.
FailureYieldsErrorEvent ==
    (/\ pc = "returned"
     /\ functionCall.found
     /\ ~ IsNullish(result)
     /\ ~ Success(result)
     /\ "error" \in DOMAIN result)
    => /\ Cardinality({i \in 1..Len(log) : log[i].type = "error"}) = 1
       /\ \A i \in 1..Len(log) :
             log[i].type = "error" => Contains(log[i].error, result.error)
       /\ ended

\* C3: every request to the streaming endpoint eventually has its response
\* ended.
ResponseEventuallyEnded == (pc # "idle") ~> ended

\* a request whose backend stream failed has had its response ended
EndedAfterStreamError == ended /\ pc = "returned" /\ stream = "errored"

\* the text of the backend's reply: the response fields of its records
RECURSIVE ReplyOf(_)
ReplyOf(lines) ==
    IF lines = <<>> THEN <<>>
    ELSE (IF Parses(Head(lines)) THEN Head(lines)[1].rec.response ELSE <<>>)
           \o ReplyOf(Tail(lines))

LLMReply == ReplyOf(Split(wire, <<>>))

\* t has the shape FUNCTION:<name>:<args> of the configured pattern: a name
\* of word characters between the first two colons, then at least one
\* character and no line break up to the end of the text
MatchesPattern(t) ==
    \E c \in 4..(Len(t) - 1) :
        /\ t[1] = "FUNCTION"
        /\ t[2] = ":"
        /\ \A j \in 3..(c - 1) : IsWord(t[j])
        /\ t[c] = ":"
        /\ \A j \in (c + 1)..Len(t) : t[j] # "\n"

\* C6: when the message holds no call and the backend's whole reply is a
\* call of a registered function, that function is executed and the call
\* text is not relayed as a token.
ReplyCallIsDispatched ==
    (/\ pc = "returned"
     /\ stream = "ended"
     /\ ~ functionCall.found
     /\ MatchesPattern(Trim(LLMReply))
     /\ detectFunctionCall(functions, LLMReply).found)
    => /\ handlerCalls = <<detectFunctionCall(functions, LLMReply).function>>
       /\ \A i \in 1..Len(log) :
             log[i].type = "token" => ~ Contains(LLMReply, log[i].text)

\* C7: with the command flag disabled a Command-kind handler returns the
\* security Failure and spawns no process, whatever its allow-list.
CommandFlagGate ==
    (/\ pc = "returned"
     /\ functionCall.found
     /\ get(functions, functionCall.function).type = "command"
     /\ ~ config.security.allowCommands)
    => /\ ~ IsNullish(result)
       /\ ~ Success(result)
       /\ result.error = <<"Command execution is disabled for security">>
       /\ spawnCount = 0

\* the flag is off and a command whose allow-list admits it was requested
GateRejectsAllowedCommand ==
    /\ pc = "returned"
    /\ ~ config.security.allowCommands
    /\ functionCall.found
    /\ functionCall.function = <<"pingHost">>
    /\ handlerCalls = << <<"pingHost">> >>
    /\ ~ Success(result)
    /\ spawnCount = 0

\* C8: with an allow-list configured and a computed command that starts
\* with none of its prefixes, the handler returns a Failure and no process
\* has been spawned.
AllowListBeforeSpawn ==
    (/\ pc = "returned"
     /\ functionCall.found
     /\ get(functions, functionCall.function).type = "command")
    => LET c == get(functions, functionCall.function).handler.config
           command == IF c.dynamic THEN c.command \o functionCall.args
                      ELSE c.command
       IN  (/\ c.allowedCommands.present
            /\ \A i \in 1..Len(c.allowedCommands.list) :
                  ~ StartsWith(command, c.allowedCommands.list[i]))
           => /\ ~ IsNullish(result)
              /\ ~ Success(result)
              /\ "error" \in DOMAIN result
              /\ spawnCount = 0

\* the flag is on, the allow-list is ["ping"] and the command is "rm -rf /"
DisallowedCommandRejected ==
    /\ pc = "returned"
    /\ config.security.allowCommands
    /\ functionCall.found
    /\ functionCall.function = <<"runCommand">>
    /\ functionCall.args = <<"rm", " ", "-", "rf", " ", "/">>
    /\ ~ Success(result)
    /\ StartsWith(result.error, <<"Command not allowed: ">>)
    /\ spawnCount = 0

\* C9: a message that, trimmed, does not match the pattern is not detected
\* as a call: the request is forwarded to the backend and no handler runs.
NoMatchIsForwarded ==
    (pc # "idle" /\ ~ MatchesPattern(Trim(message)))
    => /\ ~ functionCall.found
       /\ Forwarding
       /\ ~ Dispatching
       /\ handlerCalls = <<>>

\* a message with a call after other text was streamed to its end
MixedMessageForwarded ==
    /\ pc = "returned"
    /\ message = <<"hello", " ">> \o Call(<<"showAlert">>, <<"x">>)
    /\ stream = "ended"
    /\ handlerCalls = <<>>
    /\ log # <<>>

\* the name between the first two colons of a text of the pattern's shape
CalledName(t) ==
    LET c == CHOOSE c \in 4..Len(t) :
                 t[c] = ":" /\ \A j \in 3..(c - 1) : t[j] # ":"
    IN  SubSeq(t, 3, c - 1)

\* every error event of the log reports a failure of the backend: the
\* refused or rejected opening call, or the broken stream
OnlyBackendErrors ==
    \A i \in 1..Len(log) :
        log[i].type = "error"
        => \/ stream = "none" /\ StartsWith(log[i].error, <<"LLM API error: ">>)
           \/ stream = "errored" /\ log[i].error = <<"socket hang up">>

\* C11: a message of the pattern's shape whose name is not in the registry
\* is not detected: the request is forwarded to the backend, no handler
\* runs and no error event is written on account of the name.
UnknownNameIsForwarded ==
    (/\ pc # "idle"
     /\ MatchesPattern(Trim(message))
     /\ ~ Has(functions, CalledName(Trim(message))))
    => /\ ~ functionCall.found
       /\ Forwarding
       /\ ~ Dispatching
       /\ handlerCalls = <<>>
       /\ OnlyBackendErrors

\* the call of an unregistered name was streamed to its end as plain text
UnknownNameStreamed ==
    /\ pc = "returned"
    /\ message = Call(<<"nosuch">>, <<"x">>)
    /\ ~ functionCall.found
    /\ stream = "ended"
    /\ handlerCalls = <<>>
    /\ log # <<>>
    /\ log[Len(log)] = Done

\* C12: when the parser registered for the detected name throws on the
\* captured argument text, nothing is detected: the request is forwarded,
\* the function's handler is not invoked and no error event is written on
\* account of the parser.
ParserFailureIsForwarded ==
    (/\ pc # "idle"
     /\ parserCalls # <<>>
     /\ parseArgs(get(functions, parserCalls[1].name).parseArgs,
                  parserCalls[1].raw).threw)
    => /\ ~ functionCall.found
       /\ Forwarding
       /\ ~ Dispatching
       /\ handlerCalls = <<>>
       /\ OnlyBackendErrors

\* the iTunes example's parser threw on its placeholder text and the
\* message was streamed to its end as plain text
PlaceholderStreamed ==
    /\ pc = "returned"
    /\ message = Call(<<"searchMusic">>, <<"search_term">>)
    /\ parserCalls = <<[name |-> <<"searchMusic">>, raw |-> <<"search_term">>]>>
    /\ ~ functionCall.found
    /\ stream = "ended"
    /\ handlerCalls = <<>>
    /\ log # <<>>
    /\ log[Len(log)] = Done

\* the events that render a handler's result
ResultShaped(events) ==
    {i \in 1..Len(events) :
        events[i].type \in {"browser_action", "function_result", "error"}}

\* C13: a dispatched call whose handler has settled has its status event
\* first and exactly one event rendering the result (a browser action with
\* its confirmation token after it, a function result, or an error), and
\* the response is ended.
OneResultEvent ==
    (pc = "returned" /\ functionCall.found)
    => /\ log # <<>>
       /\ log[1] = Status(<<"Processing your request...">>)
       /\ Cardinality(ResultShaped(log)) = 1
       /\ \A i \in ResultShaped(log) :
             log[i].type = "browser_action"
             => i < Len(log) /\ log[i + 1].type = "token"
       /\ ended

\* the built-in browser functions: the action each one stands for, the
\* field of data that carries the payload and the confirmation text
BuiltIns ==
    { [name |-> <<"showAlert">>, action |-> "alert", field |-> "message",
       before |-> <<"Alert displayed: \"">>, after |-> <<"\"">>],
      [name |-> <<"openWindow">>, action |-> "openWindow", field |-> "url",
       before |-> <<"Opening new tab: ">>, after |-> <<>>],
      [name |-> <<"showModal">>, action |-> "modal", field |-> "url",
       before |-> <<"Opening modal with: ">>, after |-> <<>>],
      [name |-> <<"speak">>, action |-> "speak", field |-> "text",
       before |-> <<"Speaking: \"">>, after |-> <<"\"">>] }

StallFairness ==
    /\ WF_vars(\E ext \in UNION {ExtOutcomes(k) : k \in {"browser", "api",
                  "command", "script", "n8n", "rag", "user"}} : HandlerSettles(ext))
    /\ WF_vars(\E outcome \in {"ok", "500", "ECONNREFUSED"}, w \in Wires :
                  FetchSettles(outcome, w))

StallSpec == InitReadme /\ [][Next]_vars /\ StallFairness

\* C16: a backend stream that is being relayed either completes (a record
\* with done set, its end, or its failure settles the relay) or the stream
\* timeout ends the response with the error event "Response timeout".
StalledStreamTimesOut ==
    (settled = "pending")
    ~> \/ settled # "pending"
       \/ ended /\ \E i \in 1..Len(log) : log[i] = Error(<<"Response timeout">>)

---------------------------------------------------------------------------
(* The relay of the backend's records, js build: the message "hello" and  *)
(* every sequence of newline-terminated records                            *)

\* the response texts of the streamed records
RelayTexts == {<<>>, <<"Hi">>, <<" ", "there">>}

RelayRecords == [response : RelayTexts, done : BOOLEAN]

\* the bodies the backend streams: whole records, each with its newline
RelayWires ==
    {Serialize(rs) : rs \in UNION {[1..k -> RelayRecords] : k \in 0..MaxRecords}}

NextRelay ==
    \/ ChatStream(<<"hello">>)
    \/ \E w \in RelayWires : FetchSettles("ok", w)
    \/ \E n \in 1..MaxChunk : OnData(n)
    \/ OnEnd
    \/ OnError

SpecRelay == InitReadme /\ [][NextRelay]_vars

\* the records a newline-terminated body was serialized from
WireRecords(w) == [i \in 1..(Len(w) \div 3) |-> w[3 * i - 2].rec]

\* the records up to and including the first one with done set
UpToDone(rs) ==
    IF \E i \in 1..Len(rs) : rs[i].done
    THEN SubSeq(rs, 1, CHOOSE i \in 1..Len(rs) :
                          rs[i].done /\ \A j \in 1..(i - 1) : ~ rs[j].done)
    ELSE rs

\* one token event per record that carries a response text, in order
RECURSIVE TokensOf(_)
TokensOf(rs) ==
    IF rs = <<>> THEN <<>>
    ELSE (IF Head(rs).response # <<>> THEN <<Token(Head(rs).response)>>
          ELSE <<>>) \o TokensOf(Tail(rs))

---------------------------------------------------------------------------
(* The detector on every text *)

\* the characters of the enumerated texts: the keyword, the separator, a
\* registered name, a word that is no registered name, and white space
Alphabet == {"FUNCTION", ":", "showAlert", "x", " ", "\n"}

Texts == StringsUpTo(Alphabet, MaxTextLen)

InitDetect ==
    Start("js", "http",
          [security |-> [allowCommands |-> FALSE, allowScripts |-> FALSE],
           n8n |-> TRUE, chroma |-> FALSE])

NextDetect == \E m \in Texts : ChatStream(m)

SpecDetect == InitDetect /\ [][NextDetect]_vars

\* C10: for a registered name n and an argument string a without leading
\* or trailing white space, "FUNCTION:" + n + ":" + a is detected as a call
\* of n and n's parser is given exactly a.
CallTextIsDetected ==
    \A i \in 1..Len(functions) :
        LET n == functions[i].name
            head == <<"FUNCTION", ":">> \o n \o <<":">>
            a == SubSeq(message, Len(head) + 1, Len(message))
        IN  (pc # "idle" /\ StartsWith(message, head) /\ Trim(a) = a)
            => /\ functionCall.found
               /\ functionCall.function = n
               /\ parserCalls = <<[name |-> n, raw |-> a]>>

\* a call with arguments was detected and its parser given the arguments
CallWithArgumentsDetected ==
    /\ pc = "awaitHandler"
    /\ message = Call(<<"showAlert">>, <<"x">>)
    /\ functionCall.found
    /\ parserCalls = <<[name |-> <<"showAlert">>, raw |-> <<"x">>]>>

---------------------------------------------------------------------------
(* The ts build: POST /api/v1/chat/stream and the chatMessage socket event *)
(* The socket route is modelled with config.openAILLM.endpoint unset, the   *)
(* configuration in which it streams through streamLLMResponse.             *)

InitTS == \E c \in Configs, t \in {"http", "ws"} : Start("ts", t, c)

\* The route handler (http) or the chatMessage listener (ws) up to its
\* first await.
ChatStreamTS(m) ==
    /\ pc = "idle"
    /\ LET call == detectFunctionCall(functions, m)
           rag == call.found /\ get(functions, call.function).type = "rag"
       IN  /\ message' = m
           /\ functionCall' = call
           /\ parserCalls' = parserCalls \o call.parsed
           /\ IF rag
              THEN /\ log' = Append(log, Status(<<"Retrieving knowledge...">>))
                   /\ pc' = "awaitRag"
              ELSE IF call.found
              THEN /\ log' = Append(log, Status(<<"Processing your request...">>))
                   /\ pc' = "awaitHandler"
              ELSE /\ log' = log
                   /\ pc' = "awaitFetch"
    /\ UNCHANGED <<userConfig, connectTimer, client, flights, timer, late, build, transport, config, functions, handlerCalls,
                   spawnCount, result, ragContext, lost, ended, endCalls,
                   acked, eventsAtAck, wire, pos, buffer, stream, settled>>

\* result.results.join('\n\n'): the documents with a blank line between
\* neighbours; the empty list gives the empty string
RECURSIVE Join(_)
Join(results) ==
    IF results = <<>> THEN <<>>
    ELSE IF Len(results) = 1 THEN <<Head(results)>>
    ELSE <<Head(results), "\n", "\n">> \o Join(Tail(results))

\* The retrieval handler settles.  Documents become ragContext and the
\* request goes on to streamLLMResponse when ragContext is truthy; in every
\* other case neither of the two following branches applies and the
\* listener runs to its end (ws: the acknowledgement callback).
RagSettles(ext) ==
    /\ pc = "awaitRag"
    /\ LET func == get(functions, functionCall.function)
           out == handler(func, functionCall.args, config, ext)
           r == out.value
           docs == Success(r) /\ "results" \in DOMAIN r
           events == IF docs THEN <<Status(<<"Knowledge retrieved.">>)>>
                     ELSE IF "error" \in DOMAIN r
                     THEN <<Error(<<"RAG Error: ">> \o r.error)>>
                     ELSE <<>>
           context == IF docs THEN Join(r.results) ELSE <<>>
       IN  /\ ext \in ExtOutcomes(func.handler.kind)
           /\ handlerCalls' = Append(handlerCalls, functionCall.function)
           /\ spawnCount' = spawnCount + out.spawned
           /\ result' = r
           /\ ragContext' = context
           /\ log' = log \o events
           /\ IF context # <<>>
              THEN /\ pc' = "awaitFetch"
                   /\ UNCHANGED <<acked, eventsAtAck>>
              ELSE /\ pc' = "returned"
                   /\ acked' = (transport = "ws")
                   /\ eventsAtAck' = IF transport = "ws"
                                     THEN Len(log) + Len(events) ELSE eventsAtAck
    /\ UNCHANGED <<userConfig, connectTimer, client, flights, timer, late, build, transport, config, functions, message, functionCall,
                   parserCalls, lost, ended, endCalls, wire, pos, buffer,
                   stream, settled>>

\* The handler of a function that is no retrieval function settles: the
\* result's events, then res.end() (http) or the acknowledgement (ws).
HandlerSettlesTS(ext) ==
    /\ pc = "awaitHandler"
    /\ LET func == get(functions, functionCall.function)
           out == handler(func, functionCall.args, config, ext)
       IN  /\ ext \in ExtOutcomes(func.handler.kind)
           /\ handlerCalls' = Append(handlerCalls, functionCall.function)
           /\ spawnCount' = spawnCount + out.spawned
           /\ result' = out.value
           /\ log' = log \o ResultEvents(out)
           /\ eventsAtAck' = IF transport = "ws"
                             THEN Len(log) + Len(ResultEvents(out))
                             ELSE eventsAtAck
    /\ ended' = (transport = "http")
    /\ endCalls' = IF transport = "http" THEN endCalls + 1 ELSE endCalls
    /\ acked' = (transport = "ws")
    /\ pc' = "returned"
    /\ UNCHANGED <<userConfig, connectTimer, client, flights, timer, late, build, transport, config, functions, message, functionCall,
                   parserCalls, ragContext, lost, wire, pos, buffer, stream,
                   settled>>

\* the outer catch block: an error event, then res.end() (http) or the
\* acknowledgement (ws)
CatchTS(msg) ==
    /\ log' = Append(log, Error(msg))
    /\ ended' = (transport = "http")
    /\ endCalls' = IF transport = "http" THEN endCalls + 1 ELSE endCalls
    /\ acked' = (transport = "ws")
    /\ eventsAtAck' = IF transport = "ws" THEN Len(log) + 1 ELSE eventsAtAck
    /\ pc' = "returned"

\* streamLLMResponse(prompt, socket): the fetch of the backend settles
FetchSettlesTS(outcome, w) ==
    /\ pc = "awaitFetch"
    /\ IF outcome = "ok"
       THEN /\ wire' = w
            /\ stream' = "open"
            /\ settled' = "pending"
            /\ pc' = "streaming"
            /\ UNCHANGED <<log, ended, endCalls, acked, eventsAtAck>>
       ELSE /\ w = <<>>
            /\ CatchTS(<<"LLM API error: ", outcome>>)
            /\ UNCHANGED <<wire, stream, settled>>
    /\ UNCHANGED <<userConfig, connectTimer, client, flights, timer, late, build, transport, config, functions, message, functionCall,
                   parserCalls, handlerCalls, spawnCount, result, ragContext,
                   lost, pos, buffer>>

\* socket.emit('llmToken', ...) inside streamLLMResponse and what follows
\* when the promise resolves.  On the socket route the events go to the
\* client and the listener then acknowledges; on the http route the
\* "socket" is the response object, whose llmToken events nobody listens
\* to, and nothing is written to the response.
EmitTS(events, resolves) ==
    /\ IF transport = "ws"
       THEN log' = log \o events /\ lost' = lost
       ELSE lost' = lost \o events /\ log' = log
    /\ IF resolves /\ settled = "pending"
       THEN /\ settled' = "resolved"
            /\ pc' = "returned"
            /\ acked' = (transport = "ws")
            /\ eventsAtAck' = IF transport = "ws"
                              THEN Len(log) + Len(events) ELSE eventsAtAck
       ELSE UNCHANGED <<settled, pc, acked, eventsAtAck>>

\* response.body.on('data') of the ts build
OnDataTS(n) ==
    /\ stream = "open"
    /\ pos + n <= Len(wire)
    /\ LET d == DataTS(buffer, SubSeq(wire, pos + 1, pos + n))
       IN  /\ buffer' = d.buffer
           /\ EmitTS(d.events, d.done)
    /\ pos' = pos + n
    /\ UNCHANGED <<userConfig, connectTimer, client, flights, timer, late, build, transport, config, functions, message, functionCall,
                   parserCalls, handlerCalls, spawnCount, result, ragContext,
                   ended, endCalls, wire, stream>>

\* response.body.on('end') of the ts build: done is emitted unconditionally
OnEndTS ==
    /\ stream = "open"
    /\ pos = Len(wire)
    /\ stream' = "ended"
    /\ EmitTS(<<Done>>, TRUE)
    /\ UNCHANGED <<userConfig, connectTimer, client, flights, timer, late, build, transport, config, functions, message, functionCall,
                   parserCalls, handlerCalls, spawnCount, result, ragContext,
                   ended, endCalls, wire, pos, buffer>>

\* response.body.on('error') of the ts build
OnErrorTS ==
    /\ stream = "open"
    /\ stream' = "errored"
    /\ IF settled = "pending"
       THEN /\ settled' = "rejected"
            /\ CatchTS(<<"socket hang up">>)
       ELSE UNCHANGED <<settled, log, ended, endCalls, acked, eventsAtAck, pc>>
    /\ UNCHANGED <<userConfig, connectTimer, client, flights, timer, late, build, transport, config, functions, message, functionCall,
                   parserCalls, handlerCalls, spawnCount, result, ragContext,
                   lost, wire, pos, buffer>>

NextTS ==
    \/ \E m \in Messages : ChatStreamTS(m)
    \/ \E ext \in ExtOutcomes("rag") : RagSettles(ext)
    \/ \E ext \in UNION {ExtOutcomes(k) : k \in {"browser", "api", "command",
                            "script", "n8n", "user"}} : HandlerSettlesTS(ext)
    \/ \E outcome \in {"ok", "500", "ECONNREFUSED"}, w \in Wires :
          FetchSettlesTS(outcome, w)
    \/ \E n \in 1..MaxChunk : OnDataTS(n)
    \/ OnEndTS
    \/ OnErrorTS

SpecTS == InitTS /\ [][NextTS]_vars

\* C4: in the retrieval-enabled build a request that calls a Retrieval
\* function has its HTTP response ended once the route handler has
\* returned and no backend stream is open any more.
RagResponseEnded ==
    (/\ transport = "http"
     /\ functionCall.found
     /\ get(functions, functionCall.function).type = "rag"
     /\ pc = "returned"
     /\ stream # "open")
    => ended

\* C5: a socket chat message without a detected call gets exactly one done
\* event once the backend stream has ended, never more than one, and no
\* event after the acknowledgement callback was invoked.
SocketExactlyOneDone ==
    (transport = "ws" /\ ~ functionCall.found)
    => /\ Cardinality({i \in 1..Len(log) : log[i].type = "done"}) <= 1
       /\ stream = "ended"
             => Cardinality({i \in 1..Len(log) : log[i].type = "done"}) = 1
       /\ acked => Len(log) = eventsAtAck

---------------------------------------------------------------------------
(* The v1 build (framework.js): POST /stream.  The backend is first asked  *)
(* for a whole completion, the detector runs on that completion, and the   *)
(* streamed answer goes through processOllamaStream, which arms the       *)
(* stream timeout.                                                         *)

InitV1 ==
    Start("v1", "http",
          [security |-> [allowCommands |-> FALSE, allowScripts |-> FALSE],
           n8n |-> FALSE, chroma |-> FALSE])

\* the completions the backend gives to the opening, non-streamed call
InitialResponses ==
    { <<"Hi">>,
      Call(<<"showAlert">>, <<"x">>),
      Call(<<"searchMusic">>, <<"jazz">>),
      Call(<<"searchMusic">>, <<"search_term">>),
      Call(<<"nosuch">>, <<"x">>) }

SearchResults(r) ==
    [type |-> "search_results", results |-> r.results,
     totalResults |-> IF "totalResults" \in DOMAIN r THEN r.totalResults ELSE 0]

\* the inner catch block of the function path: it writes and ends without
\* looking at res.writableEnded
FunctionCatch(msg) == Error(<<"Function failed: ">> \o msg)

\* the function path from the handler's outcome to its return or to the
\* fetch of the analysis stream: the events written and what comes next
ResultStepV1(out) ==
    LET r == out.value
    IN  IF out.threw
        THEN [events |-> <<FunctionCatch(out.error)>>, next |-> "end"]
        ELSE IF IsNullish(r)
        THEN [events |-> <<FunctionCatch(<<"Cannot read properties of null">>)>>,
              next |-> "end"]
        ELSE IF Success(r) /\ "browserAction" \in DOMAIN r
        THEN [events |-> <<BrowserAction(r.browserAction, r.data),
                           Token(getBrowserActionConfirmation(r.browserAction,
                                                              r.data)),
                           Done>>,
              next |-> "end"]
        ELSE IF Success(r) /\ "results" \in DOMAIN r
        THEN [events |-> <<SearchResults(r)>>, next |-> "analysis"]
        ELSE IF Success(r) /\ "data" \in DOMAIN r
        THEN [events |-> <<FunctionResult(r.data)>>, next |-> "analysis"]
        ELSE IF ~ Success(r)
        THEN [events |-> <<Error(r.error)>>, next |-> "end"]
        ELSE [events |-> <<>>, next |-> "analysis"]

\* the route handler up to the await of the opening call
ChatStreamV1(m) ==
    /\ pc = "idle"
    /\ message' = m
    /\ pc' = "awaitInitial"
    /\ connectTimer' = "armed"
    /\ UNCHANGED <<userConfig, client, flights, timer, late, build, transport, config, functions,
                   functionCall, parserCalls, handlerCalls, spawnCount, result,
                   ragContext, log, lost, ended, endCalls, acked, eventsAtAck,
                   wire, pos, buffer, stream, settled>>

\* the outer catch block: it writes its error event and ends the response
\* only when the response is not ended yet
OuterCatchV1(msg) ==
    /\ IF ~ ended
       THEN /\ log' = Append(log, Error(msg))
            /\ ended' = TRUE
            /\ endCalls' = endCalls + 1
       ELSE UNCHANGED <<log, ended, endCalls>>
    /\ pc' = "returned"

\* the message of the error event of the outer catch: an AbortError is
\* reported as a timeout, any other error by its own message
CatchMessageRaw(outcome) ==
    CASE outcome = "abort" -> <<"This operation was aborted">>
      [] outcome = "500" -> <<"LLM API error: ", "500">>
      [] OTHER -> <<"fetch failed">>

CatchMessage(outcome) ==
    CASE outcome = "abort" -> <<"Request timeout">>
      [] outcome = "500" -> <<"LLM API error: ", "500">>
      [] OTHER -> <<"fetch failed">>

\* the connect timer after the opening call settled: its callback aborted
\* the call, or clearTimeout ran because the call was answered, or the call
\* was rejected before clearTimeout and the timer stays armed
ConnectTimerAfter(outcome) ==
    CASE outcome = "abort" -> "aborted"
      [] outcome \in {"ok", "500"} -> "cleared"
      [] OTHER -> connectTimer

\* the opening call settles: an abort by the connect timer, a rejection or
\* a non-2xx status go to the outer catch; a completion goes to the
\* detector, then to the handler or to the fetch of the stream
InitialSettles(outcome, responseText) ==
    /\ pc = "awaitInitial"
    /\ outcome = "abort" => connectTimer = "armed"
    /\ IF outcome = "ok"
       THEN LET call == detectFunctionCall(functions, responseText)
            IN  /\ functionCall' = call
                /\ parserCalls' = parserCalls \o call.parsed
                /\ IF call.found
                   THEN /\ log' = Append(log,
                                     Status(<<"Processing your request...">>))
                        /\ pc' = "awaitHandler"
                   ELSE /\ log' = log
                        /\ pc' = "awaitFetch"
                /\ UNCHANGED <<ended, endCalls>>
       ELSE /\ responseText = <<"Hi">>
            /\ OuterCatchV1(CatchMessage(outcome))
            /\ UNCHANGED <<functionCall, parserCalls>>
    /\ connectTimer' = ConnectTimerAfter(outcome)
    /\ UNCHANGED <<userConfig, client, flights, timer, late, build, transport, config, functions, message,
                   handlerCalls, spawnCount, result, ragContext, lost, acked,
                   eventsAtAck, wire, pos, buffer, stream, settled>>

\* executeFunction settles and the function path runs to its return or to
\* the await of the analysis call
HandlerSettlesV1(ext) ==
    /\ pc = "awaitHandler"
    /\ LET func == get(functions, functionCall.function)
           out == handler(func, functionCall.args, config, ext)
           step == ResultStepV1(out)
       IN  /\ ext \in ExtOutcomes(func.handler.kind)
           /\ handlerCalls' = Append(handlerCalls, functionCall.function)
           /\ result' = out.value
           /\ log' = log \o step.events
           /\ IF step.next = "end"
              THEN /\ ended' = TRUE
                   /\ endCalls' = endCalls + 1
                   /\ pc' = "returned"
              ELSE /\ pc' = "awaitFetch"
                   /\ UNCHANGED <<ended, endCalls>>
    /\ UNCHANGED <<userConfig, connectTimer, client, flights, timer, late, build, transport, config, functions, message,
                   functionCall, parserCalls, spawnCount, ragContext, lost,
                   acked, eventsAtAck, wire, pos, buffer, stream, settled>>

\* what follows the rejection of processOllamaStream's promise (or a throw
\* after the fetch of the stream), applied to the log l and the flag e as
\* the callback left them: on the function path the inner catch writes and
\* ends whatever e is, otherwise the outer catch does so only when ~ e
CatchV1(l, e, msg) ==
    IF functionCall.found
    THEN [log |-> Append(l, FunctionCatch(msg)), ends |-> 1,
          late |-> IF e THEN <<"functionCatch">> ELSE <<>>]
    ELSE [log |-> IF e THEN l ELSE Append(l, Error(msg)),
          ends |-> IF e THEN 0 ELSE 1, late |-> <<>>]

\* the fetch of the stream (the analysis of a function's result, or the
\* plain answer) settles; processOllamaStream attaches its callbacks and
\* arms the stream timeout
FetchSettlesV1(outcome, w) ==
    /\ pc = "awaitFetch"
    /\ IF outcome = "ok"
       THEN /\ wire' = w
            /\ stream' = "open"
            /\ settled' = "pending"
            /\ timer' = "armed"
            /\ pc' = "streaming"
            /\ UNCHANGED <<log, ended, endCalls, late>>
       ELSE LET msg == IF outcome = "500"
                       THEN (IF functionCall.found
                             THEN <<"Analysis failed: ", "500">>
                             ELSE <<"Stream failed: ", "500">>)
                       ELSE <<"fetch failed">>
                c == CatchV1(log, ended, msg)
            IN  /\ w = <<>>
                /\ log' = c.log
                /\ late' = late \o c.late
                /\ ended' = TRUE
                /\ endCalls' = endCalls + c.ends
                /\ pc' = "returned"
                /\ UNCHANGED <<wire, stream, settled, timer>>
    /\ UNCHANGED <<userConfig, connectTimer, client, flights, build, transport, config, functions, message, functionCall,
                   parserCalls, handlerCalls, spawnCount, result, ragContext,
                   lost, acked, eventsAtAck, pos, buffer>>

\* response.body.on('data') of processOllamaStream: it writes without
\* looking at res.writableEnded and stays attached after the promise has
\* settled
OnDataV1(n) ==
    /\ stream = "open"
    /\ pos + n <= Len(wire)
    /\ LET d == DataJS(buffer, SubSeq(wire, pos + 1, pos + n))
       IN  /\ buffer' = d.buffer
           /\ log' = log \o d.events
           /\ late' = IF ended THEN late \o [i \in 1..Len(d.events) |-> "data"]
                      ELSE late
           /\ IF d.done
              THEN /\ timer' = IF timer = "armed" THEN "cleared" ELSE timer
                   /\ ended' = TRUE
                   /\ endCalls' = endCalls + 1
                   /\ settled' = IF settled = "pending" THEN "resolved" ELSE settled
                   /\ pc' = IF settled = "pending" THEN "returned" ELSE pc
              ELSE UNCHANGED <<timer, ended, endCalls, settled, pc>>
    /\ pos' = pos + n
    /\ UNCHANGED <<userConfig, connectTimer, client, flights, build, transport, config, functions, message, functionCall,
                   parserCalls, handlerCalls, spawnCount, result, ragContext,
                   lost, acked, eventsAtAck, wire, stream>>

\* response.body.on('end') of processOllamaStream
OnEndV1 ==
    /\ stream = "open"
    /\ pos = Len(wire)
    /\ stream' = "ended"
    /\ timer' = IF timer = "armed" THEN "cleared" ELSE timer
    /\ IF ~ ended
       THEN /\ log' = Append(log, Done)
            /\ ended' = TRUE
            /\ endCalls' = endCalls + 1
       ELSE UNCHANGED <<log, ended, endCalls>>
    /\ settled' = IF settled = "pending" THEN "resolved" ELSE settled
    /\ pc' = IF settled = "pending" THEN "returned" ELSE pc
    /\ UNCHANGED <<userConfig, connectTimer, client, flights, late, build, transport, config, functions, message,
                   functionCall, parserCalls, handlerCalls, spawnCount, result,
                   ragContext, lost, acked, eventsAtAck, wire, pos, buffer>>

\* a callback of processOllamaStream that reports a failure: it writes its
\* error event and ends the response when the response is not ended yet,
\* then rejects; the rejection of a pending promise runs the route's catch
FailV1(written, rejected) ==
    LET l == IF ended THEN log ELSE Append(log, Error(written))
        c == IF settled = "pending" THEN CatchV1(l, TRUE, rejected)
             ELSE [log |-> l, ends |-> 0, late |-> <<>>]
    IN  /\ log' = c.log
        /\ late' = late \o c.late
        /\ ended' = TRUE
        /\ endCalls' = endCalls + (IF ended THEN 0 ELSE 1) + c.ends
        /\ settled' = IF settled = "pending" THEN "rejected" ELSE settled
        /\ pc' = IF settled = "pending" THEN "returned" ELSE pc

\* response.body.on('error') of processOllamaStream
OnErrorV1 ==
    /\ stream = "open"
    /\ stream' = "errored"
    /\ timer' = IF timer = "armed" THEN "cleared" ELSE timer
    /\ FailV1(<<"socket hang up">>, <<"socket hang up">>)
    /\ UNCHANGED <<userConfig, connectTimer, client, flights, build, transport, config, functions, message, functionCall,
                   parserCalls, handlerCalls, spawnCount, result, ragContext,
                   lost, acked, eventsAtAck, wire, pos, buffer>>

\* the stream timeout fires: setTimeout's callback in processOllamaStream
TimeoutV1 ==
    /\ timer = "armed"
    /\ timer' = "fired"
    /\ FailV1(<<"Response timeout">>, <<"Timeout">>)
    /\ UNCHANGED <<userConfig, connectTimer, client, flights, build, transport, config, functions, message, functionCall,
                   parserCalls, handlerCalls, spawnCount, result, ragContext,
                   lost, acked, eventsAtAck, wire, pos, buffer, stream>>

\* the connect timer of an opening call that was rejected fires: abort()
\* on a settled call changes nothing
ConnectTimerFires ==
    /\ connectTimer = "armed"
    /\ pc # "awaitInitial"
    /\ connectTimer' = "fired"
    /\ UNCHANGED <<userConfig, client, flights, timer, late, build, transport, config,
                   functions, pc, message, functionCall, parserCalls,
                   handlerCalls, spawnCount, result, ragContext, log, lost,
                   ended, endCalls, acked, eventsAtAck, wire, pos, buffer,
                   stream, settled>>

NextV1 ==
    \/ ChatStreamV1(<<"hello">>)
    \/ \E outcome \in {"ok", "500", "ECONNREFUSED", "abort"},
          responseText \in InitialResponses :
          InitialSettles(outcome, responseText)
    \/ \E ext \in ExtOutcomes("browser") \cup ExtOutcomes("user") :
          HandlerSettlesV1(ext)
    \/ \E outcome \in {"ok", "500", "ECONNREFUSED"}, w \in Wires :
          FetchSettlesV1(outcome, w)
    \/ \E n \in 1..MaxChunk : OnDataV1(n)
    \/ OnEndV1
    \/ OnErrorV1
    \/ TimeoutV1
    \/ ConnectTimerFires

SpecV1 == InitV1 /\ [][NextV1]_vars

\* C17: once the stream timeout has fired and its error event has closed
\* the response, no token and no done event is written after that event,
\* whatever the backend delivers afterwards.
SilentAfterTimeout ==
    timer = "fired"
    => \A i \in 1..Len(log) : \A j \in (i + 1)..Len(log) :
          log[i] = Error(<<"Response timeout">>)
          => log[j].type \notin {"token", "done"}

\* C18: once the response has been ended, the error handler of the function
\* path, the outer error handler and the stream's end handler write nothing
\* to it: whatever is written to an ended response comes from none of them.
TerminationIdempotent ==
    \A i \in 1..Len(late) :
        late[i] \notin {"functionCatch", "outerCatch", "end"}

-----------------------------------------------------------------------------
(* The executors of the registered kinds, ts build *)

\* the messages the detector answers with a call of a registered function
ExecMessages ==
    {m \in Messages :
        detectFunctionCall(FunctionRegistry("ts", UserFunctions), m).found}

\* a request up to the settling of the function's handler
NextExec ==
    \/ \E m \in ExecMessages : ChatStreamTS(m)
    \/ \E ext \in ExtOutcomes("rag") : RagSettles(ext)
    \/ \E ext \in UNION {ExtOutcomes(k) : k \in {"browser", "api", "command",
                            "script", "n8n", "user"}} : HandlerSettlesTS(ext)

SpecExec == InitTS /\ [][NextExec]_vars

\* the kinds whose handler the registry builds itself
ExecutorKinds == {"api", "command", "script", "n8n", "rag"}

\* the outcomes in which the mechanism or a routine of the user fails
FailingOutcomes ==
    {"endpointThrows", "bodyThrows", "fetchRejects", "http500", "nonJson",
     "nonJsonAsJson",
     "commandThrows", "execError", "throws", "queryThrows", "storeError"}

\* { success: false, error: <text> }, possibly with further fields
IsFailure(r) ==
    /\ ~ IsNullish(r)
    /\ "success" \in DOMAIN r /\ r.success = FALSE
    /\ "error" \in DOMAIN r /\ r.error # <<>>

-----------------------------------------------------------------------------
(* Registrations after construction *)

\* the names registered: a built-in, a function of the configuration, and
\* a name the registry does not hold after construction
RegisteredNames == {<<"showAlert">>, <<"searchData">>, <<"newFn">>}

\* the definitions registered: with and without a description, with two
\* handlers, and one that carries a type field of its own
RegisteredDefinitions ==
    {[handler |-> [kind |-> "user", config |-> getWeather],
      parseArgs |-> "trim", description |-> <<"first">>],
     [handler |-> [kind |-> "user", config |-> searchData],
      parseArgs |-> "trim", description |-> <<"second">>],
     [handler |-> [kind |-> "user", config |-> searchData],
      parseArgs |-> "none"],
     [handler |-> [kind |-> "user", config |-> getWeather],
      parseArgs |-> "trim", description |-> <<"second">>, type |-> "custom"]}

\* functionRegistry.register(type, name, definition) on the running framework
Register(type, name, definition) ==
    /\ pc = "idle"
    /\ functions' = register(functions, type, name, definition)
    /\ UNCHANGED <<userConfig, connectTimer, client, flights, build, transport, config, pc, message, functionCall,
                   parserCalls, handlerCalls, spawnCount, result, ragContext,
                   log, lost, ended, endCalls, acked, eventsAtAck, wire, pos,
                   buffer, stream, settled, timer, late>>

NextRegistry ==
    \E type \in {"api", "script"}, name \in RegisteredNames,
       definition \in RegisteredDefinitions : Register(type, name, definition)

SpecRegistry == InitReadme /\ [][NextRegistry]_vars

\* number of entries of a list whose name field is name
CountOf(list, name) == Cardinality({i \in 1..Len(list) : list[i].name = name})

\* C20: a registration under a name the registry already holds leaves
\* exactly one entry for that name, get(name) returns the definition of
\* this second registration (with the type and name it was registered
\* under), the listing contains the name exactly once, and the registry
\* has no more entries than before.
RegisterIsIdempotent ==
    [][\A type \in {"api", "script"}, name \in RegisteredNames,
          definition \in RegisteredDefinitions :
            (Has(functions, name) /\ Register(type, name, definition))
            => /\ CountOf(functions', name) = 1
               /\ get(functions', name)
                    = definition @@ [type |-> type, name |-> name]
               /\ CountOf(getAll(functions'), name) = 1
               /\ Len(functions') = Len(functions)]_vars

\* the built-in showAlert was registered again and the second definition is
\* the one in effect, the registry being as long as after construction
BuiltInReplaced ==
    /\ Len(functions) = Len(FunctionRegistry("js", UserFunctions))
    /\ get(functions, <<"showAlert">>).handler.kind = "user"
    /\ CountOf(getAll(functions), <<"showAlert">>) = 1
    /\ \E i \in 1..Len(functions) :
          getAll(functions)[i] = [name |-> <<"showAlert">>, type |-> "script",
                                  description |-> <<"second">>]

-----------------------------------------------------------------------------
(* The API executor's reading of the response *)

\* C21: for an HTTP API function whose request was answered 2xx with a body
\* that is no JSON text, whatever content type the response declares, the
\* handler resolves to exactly {success: false, error: "Invalid response
\* format"} and config.transform is not called.
NonJsonIsInvalidFormat ==
    (pc = "awaitHandler" /\ functionCall.found)
    => LET func == get(functions, functionCall.function)
       IN  func.handler.kind = "api"
           => \A ext \in NonJsonOutcomes :
                 LET out == handler(func, functionCall.args, config, ext)
                 IN  /\ ~ out.threw
                     /\ out.value = [success |-> FALSE,
                                     error |-> <<"Invalid response format">>]
                     /\ out.transformCalls = 0

\* a function with a transform routine got a non-JSON body and the request
\* went on with the format Failure
NonJsonWithTransformRejected ==
    /\ pc = "returned"
    /\ functionCall.found
    /\ get(functions, functionCall.function).handler.kind = "api"
    /\ get(functions, functionCall.function).handler.config.transform
    /\ result = [success |-> FALSE, error |-> <<"Invalid response format">>]

-----------------------------------------------------------------------------
(* The classification of a handler's result *)

\* the events of the response that have one of the given types
EventsOfType(types) == {i \in 1..Len(log) : log[i].type \in types}

\* C22: once the handler of a detected call has settled and the route has
\* returned, a success result with a results key was reported as a
\* search_results event carrying these results, a success result with a
\* browserAction as browser_action, any other success as function_result,
\* and anything else (a Failure, a result without success, a rejection) as
\* an error event.
ResultClassification ==
    (pc = "returned" /\ functionCall.found /\ handlerCalls # <<>>)
    => LET r == result
       IN  IF IsNullish(r) \/ ~ Success(r)
           THEN EventsOfType({"error"}) # {}
           ELSE IF "results" \in DOMAIN r
           THEN \E i \in EventsOfType({"search_results"}) :
                   log[i].results = r.results
           ELSE IF "browserAction" \in DOMAIN r
           THEN \E i \in EventsOfType({"browser_action"}) :
                   log[i].action = r.browserAction
           ELSE EventsOfType({"function_result"}) # {}

-----------------------------------------------------------------------------
(* The requests that carry a call, both builds of the chat route *)

\* the messages the detector of build b answers with a call
DetectedCalls(b) ==
    {m \in Messages :
        detectFunctionCall(FunctionRegistry(b, UserFunctions), m).found}

InitDispatch == Init \/ InitTS

NextDispatch ==
    \/ build = "js" /\ \E m \in DetectedCalls("js") : ChatStream(m)
    \/ /\ build = "js"
       /\ \E ext \in UNION {ExtOutcomes(k) : k \in {"browser", "api", "command",
                               "script", "n8n", "user"}} : HandlerSettles(ext)
    \/ build = "ts" /\ \E m \in DetectedCalls("ts") : ChatStreamTS(m)
    \/ build = "ts" /\ \E ext \in ExtOutcomes("rag") : RagSettles(ext)
    \/ /\ build = "ts"
       /\ \E ext \in UNION {ExtOutcomes(k) : k \in {"browser", "api", "command",
                               "script", "n8n"}} : HandlerSettlesTS(ext)
    \/ /\ build = "ts"
       /\ \E outcome \in {"ok", "500", "ECONNREFUSED"}, w \in RelayWires :
             FetchSettlesTS(outcome, w)
    \/ build = "ts" /\ \E n \in 1..MaxChunk : OnDataTS(n)
    \/ build = "ts" /\ OnEndTS
    \/ build = "ts" /\ OnErrorTS

SpecDispatch == InitDispatch /\ [][NextDispatch]_vars

\* C23: for every detected call the handler of the detected function is
\* invoked exactly once during the request: never more than once at any
\* moment, and once the handler has settled (with whatever result or
\* exception) and for the rest of the request, including the streaming of
\* an answer that follows a retrieval, the only invocation is that one.
HandlerInvokedOnce ==
    functionCall.found
    => /\ Len(handlerCalls) <= 1
       /\ pc \notin {"idle", "awaitHandler", "awaitRag"}
          => handlerCalls = <<functionCall.function>>

\* a handler rejected, the route reported the exception and returned, and
\* the handler had been invoked once
ThrowingHandlerCalledOnce ==
    /\ pc = "returned"
    /\ functionCall.found
    /\ handlerCalls = <<functionCall.function>>
    /\ \E i \in 1..Len(log) : log[i] = Error(<<"handler exception">>)

-----------------------------------------------------------------------------
(* The script flag *)

\* C24: with security.allowScripts off, the handler of a Script function
\* resolves, for every argument and whatever the script body would do, to a
\* Failure whose error is the script-security message, and the script body
\* is not called; this is so with security.allowCommands on and off.
ScriptFlagGate ==
    (pc = "awaitHandler" /\ functionCall.found /\ ~ config.security.allowScripts)
    => LET func == get(functions, functionCall.function)
       IN  func.handler.kind = "script"
           => \A ext \in ExtOutcomes("script") :
                 LET out == handler(func, functionCall.args, config, ext)
                 IN  /\ ~ out.threw
                     /\ IsFailure(out.value)
                     /\ out.value.error
                          = <<"Script execution is disabled for security">>
                     /\ out.scriptCalls = 0

\* a script function was called with scripts disabled and commands enabled,
\* and the request ended with the script-security Failure
ScriptRejectedWithCommandsOn ==
    /\ pc = "returned"
    /\ functionCall.found
    /\ get(functions, functionCall.function).handler.kind = "script"
    /\ ~ config.security.allowScripts
    /\ config.security.allowCommands
    /\ ~ IsNullish(result)
    /\ result.error = <<"Script execution is disabled for security">>

-----------------------------------------------------------------------------
(* Requests in flight side by side, js build *)

\* bodies of whole records in which only the last record may set done
ConcurrentTexts == {<<"Hi">>, <<" ", "there">>}

ConcurrentWires ==
    {Serialize(rs) :
        rs \in {q \in UNION {[1..k -> [response : ConcurrentTexts,
                                        done : BOOLEAN]] : k \in 0..MaxRecords} :
                   \A i \in 1..(Len(q) - 1) : ~ q[i].done}}

\* a response object every request shares (the one of the first request)
ResShared(r) == 1

\* the res parameter of the streamLLMResponse call of request r, captured
\* by its callbacks
ResOf(r) == r

\* res.write(event) by a callback of request r
WriteOf(fl, r, events) ==
    [fl EXCEPT ![ResOf(r)].log =
        @ \o [i \in 1..Len(events) |-> [from |-> r, event |-> events[i]]]]

\* the route of request r, with no call in the message, has fetched the
\* backend and streamLLMResponse has attached its callbacks
StreamOpens(r, w) ==
    /\ flights[r].stream = "none"
    /\ flights' = [flights EXCEPT ![r].wire = w, ![r].stream = "open"]
    /\ UNCHANGED <<userConfig, connectTimer, client, build, transport, config, functions, pc, message,
                   functionCall, parserCalls, handlerCalls, spawnCount, result,
                   ragContext, log, lost, ended, endCalls, acked, eventsAtAck,
                   wire, pos, buffer, stream, settled, timer, late>>

\* the 'data' callback of request r
OnDataOf(r, n) ==
    /\ flights[r].stream = "open"
    /\ flights[r].pos + n <= Len(flights[r].wire)
    /\ LET f == flights[r]
           d == DataJS(f.buffer, SubSeq(f.wire, f.pos + 1, f.pos + n))
           written == WriteOf(flights, r, d.events)
       IN  flights' = [written EXCEPT ![r].buffer = d.buffer,
                                      ![r].pos = f.pos + n,
                                      ![ResOf(r)].ended = @ \/ d.done]
    /\ UNCHANGED <<userConfig, connectTimer, client, build, transport, config, functions, pc, message,
                   functionCall, parserCalls, handlerCalls, spawnCount, result,
                   ragContext, log, lost, ended, endCalls, acked, eventsAtAck,
                   wire, pos, buffer, stream, settled, timer, late>>

\* the 'end' callback of request r
OnEndOf(r) ==
    /\ flights[r].stream = "open"
    /\ flights[r].pos = Len(flights[r].wire)
    /\ LET written == IF flights[ResOf(r)].ended THEN flights
                      ELSE WriteOf(flights, r, <<Done>>)
       IN  flights' = [written EXCEPT ![r].stream = "ended",
                                      ![ResOf(r)].ended = TRUE]
    /\ UNCHANGED <<userConfig, connectTimer, client, build, transport, config, functions, pc, message,
                   functionCall, parserCalls, handlerCalls, spawnCount, result,
                   ragContext, log, lost, ended, endCalls, acked, eventsAtAck,
                   wire, pos, buffer, stream, settled, timer, late>>

\* the 'error' callback of request r rejects, and the route's catch block
\* writes the error event and ends the response
OnErrorOf(r) ==
    /\ flights[r].stream = "open"
    /\ flights' = [WriteOf(flights, r, <<Error(<<"socket hang up">>)>>)
                     EXCEPT ![r].stream = "errored", ![ResOf(r)].ended = TRUE]
    /\ UNCHANGED <<userConfig, connectTimer, client, build, transport, config, functions, pc, message,
                   functionCall, parserCalls, handlerCalls, spawnCount, result,
                   ragContext, log, lost, ended, endCalls, acked, eventsAtAck,
                   wire, pos, buffer, stream, settled, timer, late>>

NextConcurrent ==
    \/ \E r \in Requests, w \in ConcurrentWires : StreamOpens(r, w)
    \/ \E r \in Requests, n \in 1..MaxChunk : OnDataOf(r, n)
    \/ \E r \in Requests : OnEndOf(r)
    \/ \E r \in Requests : OnErrorOf(r)

SpecConcurrent == InitReadme /\ [][NextConcurrent]_vars

\* the token events among the entries written to a response, in order
RECURSIVE TokenEvents(_)
TokenEvents(entries) ==
    IF entries = <<>> THEN <<>>
    ELSE (IF Head(entries).event.type = "token" THEN <<Head(entries).event>>
          ELSE <<>>) \o TokenEvents(Tail(entries))

\* C25: with the requests streaming side by side and their backend
\* callbacks interleaved in any order, every event on a request's response
\* was written by a callback of that request, the token events on it are,
\* in order, the first response texts of its own backend stream, and once
\* its stream has ended they are all of them, followed by done.
RequestsAreIsolated ==
    \A r \in Requests :
        LET f == flights[r]
            expected == TokensOf(WireRecords(f.wire))
        IN  /\ \A i \in 1..Len(f.log) : f.log[i].from = r
            /\ StartsWith(expected, TokenEvents(f.log))
            /\ f.stream = "ended"
               => [i \in 1..Len(f.log) |-> f.log[i].event] = expected \o <<Done>>

\* both requests are in mid-stream at once: each has had its first token
\* written and holds the beginning of its second record in its own buffer
TwoAnswersInterleaved ==
    /\ \A r \in Requests :
          /\ flights[r].stream = "open"
          /\ Len(TokenEvents(flights[r].log)) = 1
          /\ flights[r].buffer # <<>>
    /\ flights[1].wire # flights[2].wire

-----------------------------------------------------------------------------
(* The listing and health endpoints *)

\* GET /api/v1/functions: res.json({ functions, total })
GetFunctions ==
    /\ pc = "idle"
    /\ LET list == getAll(functions)
       IN  log' = <<[functions |-> list, total |-> Len(list)]>>
    /\ ended' = TRUE
    /\ endCalls' = endCalls + 1
    /\ pc' = "returned"
    /\ UNCHANGED <<userConfig, connectTimer, client, build, transport, config, functions, message, functionCall,
                   parserCalls, handlerCalls, spawnCount, result, ragContext,
                   lost, acked, eventsAtAck, wire, pos, buffer, stream, settled,
                   timer, late, flights>>

\* GET /api/v1/health: status and the feature report
GetHealth ==
    /\ pc = "idle"
    /\ log' = <<[status |-> "ok",
                 features |-> [functions |-> Len(getAll(functions))]]>>
    /\ ended' = TRUE
    /\ endCalls' = endCalls + 1
    /\ pc' = "returned"
    /\ UNCHANGED <<userConfig, connectTimer, client, build, transport, config, functions, message, functionCall,
                   parserCalls, handlerCalls, spawnCount, result, ragContext,
                   lost, acked, eventsAtAck, wire, pos, buffer, stream, settled,
                   timer, late, flights>>

\* the registrations of startup in any number and order, then one request
NextEndpoints ==
    \/ \E type \in {"api", "script"}, name \in RegisteredNames,
          definition \in RegisteredDefinitions :
             Register(type, name, definition)
    \/ GetFunctions
    \/ GetHealth

SpecEndpoints == InitReadme /\ [][NextEndpoints]_vars

\* C26: whatever was registered at startup (the built-ins, the functions of
\* the configuration, names registered again), the body of the listing
\* endpoint holds one item per registry entry and no other, each with the
\* entry's name, type and description, its total is the number of registry
\* entries, and the body of the health endpoint has status "ok" and the
\* same number as its function count.
ListingMatchesRegistry ==
    (pc = "returned" /\ Len(log) = 1)
    => LET body == log[1]
       IN  /\ "functions" \in DOMAIN body
              => /\ body.total = Len(functions)
                 /\ Len(body.functions) = Len(functions)
                 /\ \A k \in 1..Len(functions) :
                       LET e == functions[k]
                           items == {i \in 1..Len(body.functions) :
                                        body.functions[i].name = e.name}
                       IN  /\ Cardinality(items) = 1
                           /\ \A i \in items :
                                 /\ body.functions[i].type = e.type
                                 /\ "description" \in DOMAIN e
                                    => /\ "description" \in DOMAIN body.functions[i]
                                       /\ body.functions[i].description
                                            = e.description
           /\ "status" \in DOMAIN body
              => /\ body.status = "ok"
                 /\ body.features.functions = Len(functions)

\* the listing was asked for after the built-in showAlert had been
\* registered again and a new name added
ListingAfterOverwrite ==
    /\ pc = "returned"
    /\ Len(log) = 1
    /\ "functions" \in DOMAIN log[1]
    /\ get(functions, <<"showAlert">>).handler.kind = "user"
    /\ Has(functions, <<"newFn">>)
    /\ log[1].total = Len(FunctionRegistry("js", UserFunctions)) + 1

-----------------------------------------------------------------------------
(* Authentication of the protected routes, js build *)

\* config.auth as mergeWithDefaults leaves it
AuthConfigs ==
    [enabled : BOOLEAN, mode : {"disabled", "apikey", "oauth"},
     apiKeys : [enabled : BOOLEAN]]

\* the permission each protected route passes to requireAuth
RoutePermission ==
    [chat |-> "chat", config |-> "config", functions |-> "functions"]

ProtectedRoutes == DOMAIN RoutePermission

\* what a request can present in x-api-key: nothing, one of the two
\* generated keys, or a key the server never issued
PresentedKeys == {"none", "adminKey", "uiKey", "bogus"}

\* AuthenticationManager.apiKeys after generateInitialApiKeys
generateInitialApiKeys(auth) ==
    IF ~ auth.apiKeys.enabled THEN <<>>
    ELSE [adminKey |-> [role |-> "admin", permissions |-> {"*"}],
          uiKey |-> [role |-> "ui",
                     permissions |-> {"chat", "examples", "functions"}]]

\* authenticateRequest(req) for a request without a bearer token
authenticateRequest(apiKeys, apiKey) ==
    IF apiKey # "none" /\ apiKey \in DOMAIN apiKeys
    THEN [user |-> [id |-> "api", role |-> apiKeys[apiKey].role],
          apiKey |-> apiKeys[apiKey]]
    ELSE Null

\* the middleware requireAuth(permissions) returns: "next" or "401"
requireAuth(permissions, auth, apiKey) ==
    IF auth.mode = "disabled" THEN "next"
    ELSE IF IsNullish(authenticateRequest(generateInitialApiKeys(auth), apiKey))
    THEN "401"
    ELSE "next"

\* this.authManager?.requireAuth([...]) || ((req, res, next) => next())
Middleware(route, auth, apiKey) ==
    IF auth.enabled THEN requireAuth({RoutePermission[route]}, auth, apiKey)
    ELSE "next"

InitAuth ==
    \E auth \in AuthConfigs :
        Start("js", "http",
              [security |-> [allowCommands |-> TRUE, allowScripts |-> FALSE],
               n8n |-> TRUE, chroma |-> FALSE, auth |-> auth])

\* a request to a protected route: message is the request (route and
\* presented key), handlerCalls the route handlers the middleware let run
Request(route, apiKey) ==
    /\ pc = "idle"
    /\ message' = [route |-> route, apiKey |-> apiKey]
    /\ IF Middleware(route, config.auth, apiKey) = "next"
       THEN /\ handlerCalls' = <<route>>
            /\ log' = <<[status |-> 200, route |-> route]>>
       ELSE /\ handlerCalls' = <<>>
            /\ log' = <<[status |-> 401, error |-> <<"Authentication required">>]>>
    /\ ended' = TRUE
    /\ endCalls' = endCalls + 1
    /\ pc' = "returned"
    /\ UNCHANGED <<userConfig, connectTimer, client, build, transport, config, functions, functionCall,
                   parserCalls, spawnCount, result, ragContext, lost, acked,
                   eventsAtAck, wire, pos, buffer, stream, settled, timer, late,
                   flights>>

NextAuth == \E route \in ProtectedRoutes, apiKey \in PresentedKeys :
               Request(route, apiKey)

SpecAuth == InitAuth /\ [][NextAuth]_vars

\* C27: with authentication enabled and the mode not 'disabled', the
\* handler of a protected route has run only for a request that presented
\* a key the server issued and whose permission list contains the
\* permission the route requires, or '*' (so the UI key never reaches the
\* config route and a request without credentials reaches no handler).
PermissionGate ==
    (/\ pc = "returned"
     /\ config.auth.enabled
     /\ config.auth.mode # "disabled"
     /\ handlerCalls # <<>>)
    => LET apiKeys == generateInitialApiKeys(config.auth)
       IN  /\ message.apiKey \in DOMAIN apiKeys
           /\ \/ RoutePermission[message.route]
                    \in apiKeys[message.apiKey].permissions
              \/ "*" \in apiKeys[message.apiKey].permissions

-----------------------------------------------------------------------------
(* The HTTP streaming endpoint of the ts build *)

\* C28: in the ts build, a request on the HTTP streaming endpoint whose
\* message holds no call and whose backend stream has completed has had
\* every backend token written to its HTTP response (none was emitted
\* elsewhere), the last record written is done, and the response is ended.
HttpStreamRelayedAndEnded ==
    (/\ build = "ts"
     /\ transport = "http"
     /\ pc # "idle"
     /\ ~ functionCall.found
     /\ stream = "ended")
    => /\ lost = <<>>
       /\ log # <<>>
       /\ log[Len(log)] = Done
       /\ ended

-----------------------------------------------------------------------------
(* Independence of the chunking, ts build *)

\* what the socket receives when the whole body arrives in one chunk: the
\* events of the one 'data' callback, then the done of the 'end' callback
SingleChunkTS(w) == DataTS(<<>>, w).events \o <<Done>>

\* C29: for a backend body of newline-delimited JSON records, however it
\* was split into chunks (also in the middle of a record), the events the
\* client has received when the stream has ended are the events it
\* receives when the body arrives in a single chunk.
ChunkingIndependent ==
    (/\ build = "ts"
     /\ transport = "ws"
     /\ ~ functionCall.found
     /\ stream = "ended")
    => log = SingleChunkTS(wire)

-----------------------------------------------------------------------------
(* The record the backend does not terminate *)

\* the records of a body whose last record may lack its newline
BodyRecords(w) == [i \in 1..((Len(w) + 1) \div 3) |-> w[3 * i - 2].rec]

\* the token events of the response, in order
WrittenTokens == SelectSeq(log, LAMBDA e : e.type = "token")

\* C30: with no detected call, once the backend's stream has ended the
\* response holds one token per record that carries a response text, in
\* order and once each, the last record included when the body ends
\* without a newline after it, and done follows them (bodies in which no
\* record but the last sets done).
FinalRecordRelayed ==
    (/\ build = "js"
     /\ ~ functionCall.found
     /\ stream = "ended"
     /\ \A i \in 1..(Len(BodyRecords(wire)) - 1) : ~ BodyRecords(wire)[i].done)
    => /\ WrittenTokens = TokensOf(BodyRecords(wire))
       /\ log = WrittenTokens \o <<Done>>

-----------------------------------------------------------------------------
(* The allow-list of a command function *)

\* C31: with security.allowCommands on, once the handler of a command
\* function has settled on a command its builder computed, a process was
\* spawned for it if and only if the definition has no allow-list or some
\* entry of the list is a prefix of the command; so an empty list lets no
\* command through, and a command that only begins with an entry runs.
AllowListIsPrefixTest ==
    (/\ pc = "returned"
     /\ config.security.allowCommands
     /\ functionCall.found
     /\ get(functions, functionCall.function).type = "command"
     /\ ~ IsNullish(result)
     /\ ~ ("error" \in DOMAIN result
           /\ result.error = <<"command builder failed">>))
    => LET c == get(functions, functionCall.function).handler.config
           command == Command(c, functionCall.args)
       IN  (spawnCount = 1)
           <=> \/ ~ c.allowedCommands.present
               \/ \E i \in 1..Len(c.allowedCommands.list) :
                     StartsWith(command, c.allowedCommands.list[i])

\* "ping; rm" went through the allow-list ["ping"] and was executed
PrefixedCommandExecuted ==
    /\ pc = "returned"
    /\ config.security.allowCommands
    /\ functionCall.found
    /\ functionCall.function = <<"runCommand">>
    /\ functionCall.args = <<"ping", ";", " ", "rm">>
    /\ spawnCount = 1
    /\ Success(result)
    /\ result.command = <<"ping", ";", " ", "rm">>

-----------------------------------------------------------------------------
(* Calls inside longer texts *)

\* what may stand before and after a call in a message: words, blanks and
\* line breaks, up to two characters on each side
Surroundings == StringsUpTo({"x", " ", "\n"}, 2)

MixedTexts ==
    {pre \o call \o post :
        pre \in Surroundings, post \in Surroundings,
        call \in {Call(<<"showAlert">>, <<"x">>),
                  Call(<<"speak">>, <<"a", " ", "b">>)}}

NextMixed == \E m \in MixedTexts : ChatStream(m)

SpecMixed == InitDetect /\ [][NextMixed]_vars

\* the call pattern with a registered name begins at position p of m
CallAt(m, p) ==
    /\ p + 4 <= Len(m)
    /\ m[p] = "FUNCTION"
    /\ m[p + 1] = ":"
    /\ Has(functions, <<m[p + 2]>>)
    /\ m[p + 3] = ":"
    /\ m[p + 4] \notin WhiteSpace

\* C32: a text in which the call pattern of a registered function comes
\* after other text that is not white space, or is followed by a line
\* break and, after it, more text that is not white space, is not
\* detected as a call: the request is forwarded and no handler runs.
EmbeddedCallNotDetected ==
    (/\ pc # "idle"
     /\ \E p \in 1..Len(message) :
           /\ CallAt(message, p)
           /\ \/ \E j \in 1..(p - 1) : message[j] \notin WhiteSpace
              \/ \E q \in (p + 4)..Len(message) :
                    /\ message[q] \in LineTerminators
                    /\ \E j \in (q + 1)..Len(message) :
                          message[j] \notin WhiteSpace)
    => /\ ~ functionCall.found
       /\ pc = "awaitFetch"
       /\ handlerCalls = <<>>

\* a call of showAlert followed by a second line of text was forwarded
CallWithSecondLineForwarded ==
    /\ message = Call(<<"showAlert">>, <<"x">>) \o <<"\n", "x">>
    /\ pc = "awaitFetch"
    /\ ~ functionCall.found
    /\ log = <<>>

----------------------------------------------------------------------------
(* The connect timer of the opening call, v1 *)

\* C33: an opening call that the connect timer aborted leaves exactly one
\* error event, with the message "Request timeout", and a response ended
\* once; an opening call answered in time has its connect timer cleared,
\* and then no timeout error is ever written for the request
ConnectTimeoutReported ==
    /\ connectTimer = "aborted"
          => /\ pc = "returned"
             /\ ended
             /\ endCalls = 1
             /\ Cardinality(EventsOfType({"error"})) = 1
             /\ \A i \in EventsOfType({"error"}) :
                   log[i] = Error(<<"Request timeout">>)
    /\ connectTimer = "cleared"
          => \A i \in 1..Len(log) : log[i] # Error(<<"Request timeout">>)

\* the opening call was aborted and the client was told so
OpeningCallAborted ==
    /\ connectTimer = "aborted"
    /\ log = <<Error(<<"Request timeout">>)>>
    /\ ended

----------------------------------------------------------------------------
(* Instances constructed from the user's configuration, all three builds *)

StartupNames == {<<"showAlert">>, <<"lookup">>}

\* definitions as a user writes them: one of each type, one without a
\* type (with a handler of its own), one of an unknown type, one without
\* parseArgs
StartupDefinitions ==
    {searchData, pingHost, calculateStats, createTicket, searchMusic,
     [searchMusic EXCEPT !.parseArgs = "trim"],
     [searchData EXCEPT !.type = "custom"],
     [searchData EXCEPT !.parseArgs = "undefined"]}

StartupTables ==
    {<<>>} \cup {<<[name |-> n, def |-> d]>> :
                    n \in StartupNames, d \in StartupDefinitions}

SuppliedPatterns ==
    {[kind |-> "RegExp", prefix |-> "CALL"],
     [kind |-> "string", prefix |-> "CALL"]}

StartupConfigs ==
    LET base == [security |-> [allowCommands |-> FALSE, allowScripts |-> FALSE],
                 n8n |-> TRUE, chroma |-> FALSE]
    IN  {base @@ [functions |-> t] : t \in StartupTables}
        \cup {base @@ [functions |-> t, functionPattern |-> p] :
                 t \in StartupTables, p \in SuppliedPatterns}

StartupTexts ==
    {Call(<<"showAlert">>, <<"x">>), Call(<<"lookup">>, <<"x">>),
     <<"CALL", ":", "showAlert", ":", "x">>,
     <<"CALL", ":", "lookup", ":", "x">>, <<"hello">>}

InitStartup ==
    \E b \in {"js", "ts", "v1"}, c \in StartupConfigs : Start(b, "http", c)

NextStartup ==
    \/ build = "js" /\ \E m \in StartupTexts : ChatStream(m)
    \/ /\ build = "js"
       /\ \E ext \in UNION {ExtOutcomes(k) : k \in {"browser", "api", "command",
                               "script", "n8n", "user"}} : HandlerSettles(ext)
    \/ build = "ts" /\ \E m \in StartupTexts : ChatStreamTS(m)
    \/ /\ build = "ts"
       /\ \E ext \in UNION {ExtOutcomes(k) : k \in {"browser", "api", "command",
                               "script", "n8n"}} : HandlerSettlesTS(ext)
    \/ build = "v1" /\ ChatStreamV1(<<"hello">>)
    \/ /\ build = "v1"
       /\ \E responseText \in StartupTexts : InitialSettles("ok", responseText)
    \/ /\ build = "v1"
       /\ \E ext \in ExtOutcomes("browser") \cup ExtOutcomes("user") :
             HandlerSettlesV1(ext)

SpecStartup == InitStartup /\ [][NextStartup]_vars

\* the parsers that are routines
CallableParsers == {"trim", "placeholder"}

\* C34: every entry of the registry carries a handler and a parser that
\* can be called, and every parser the detector called was one
RegistryEntriesCallable ==
    /\ \A i \in 1..Len(functions) :
          /\ "handler" \in DOMAIN functions[i]
          /\ functions[i].parseArgs \in CallableParsers
    /\ \A i \in 1..Len(parserCalls) :
          get(functions, parserCalls[i].name).parseArgs \in CallableParsers

\* C35: a pattern the user's configuration supplies is the pattern of the
\* merged configuration, and a text is a call exactly when it matches the
\* supplied pattern with a registered name whose parser accepts the
\* arguments
SuppliedPatternIsUsed ==
    "functionPattern" \in DOMAIN userConfig
    => /\ config.functionPattern = userConfig.functionPattern
       /\ (build # "v1" /\ pc # "idle")
          => LET m == Match(Trim(message), userConfig.functionPattern)
             IN  functionCall.found
                 <=> /\ m.matched
                     /\ Has(functions, m.funcName)
                     /\ ~ parseArgs(get(functions, m.funcName).parseArgs,
                                    m.rawArgs).threw

\* the definitions a build takes into its registry
Registers(b, def) ==
    CASE b = "js" -> def.type \in {"api", "command", "script", "n8n", ""}
      [] b = "ts" -> def.type \in {"api", "command", "script", "n8n"}
      [] OTHER -> TRUE

BuiltInNames == {b.name : b \in BuiltIns}

\* C36: a definition of the user's configuration that is named like a
\* built-in browser function, and is of a kind the build registers, is the
\* registry's entry of that name: the entry has the user's handler, not
\* the browser's, and the user's parser; detection and dispatch take both
\* from this entry
UserDefinitionReplacesBuiltIn ==
    \A i \in 1..Len(userConfig.functions) :
        LET e == userConfig.functions[i]
        IN  (e.name \in BuiltInNames /\ Registers(build, e.def))
            => /\ get(functions, e.name).handler.kind # "browser"
               /\ get(functions, e.name).handler.config = e.def
               /\ get(functions, e.name).parseArgs = e.def.parseArgs

\* the names of a registry
NamesOf(fns) == {fns[i].name : i \in 1..Len(fns)}

\* C37: the js and the ts build make registries of the same names out of
\* the user's configuration, and detect the same texts as calls
SameNamesInBothBuilds ==
    LET js == FunctionRegistry("js", userConfig.functions)
        ts == FunctionRegistry("ts", userConfig.functions)
    IN  /\ NamesOf(js) = NamesOf(ts)
        /\ \A m \in StartupTexts :
              detectFunctionCall(js, m).found = detectFunctionCall(ts, m).found

----------------------------------------------------------------------------
(* The chat client: ChatInterface.sendMessage and the reducer *)

\* the sendMessage calls that get past the guard
Sends == {1, 2}

\* every variable but the client's
serverVars ==
    <<build, transport, config, functions, pc, message, functionCall,
      parserCalls, handlerCalls, spawnCount, result, ragContext, log, lost,
      ended, endCalls, acked, eventsAtAck, wire, pos, buffer, stream, settled,
      timer, late, flights, connectTimer, userConfig>>

\* appReducer(state, action), the three actions sendMessage dispatches
appReducer(state, action) ==
    CASE action.type = "ADD_MESSAGE" ->
            [state EXCEPT !.messages = Append(@, action.payload)]
      [] action.type = "UPDATE_LAST_MESSAGE" ->
            IF state.messages = <<>> THEN state
            ELSE [state EXCEPT !.messages[Len(state.messages)] =
                                   action.payload @@ @]
      [] action.type = "SET_STREAMING" ->
            [state EXCEPT !.isStreaming = action.payload]
      [] OTHER -> state

\* a message of the list: its type and content, the sendMessage call that
\* added it and the content it was added with
NewMessage(type, content, k) ==
    [type |-> type, content |-> content, call |-> k, added |-> content]

AddMessage(state, type, content, k) ==
    appReducer(state, [type |-> "ADD_MESSAGE",
                       payload |-> NewMessage(type, content, k)])

\* the finally block of sendMessage
Finally(state, k) ==
    [appReducer(state, [type |-> "SET_STREAMING", payload |-> FALSE])
        EXCEPT !.calls[k].pc = "done"]

\* the catch block of sendMessage, then the finally block
CatchClient(state, k, msg) ==
    Finally(AddMessage(state, "error",
                       <<"Failed to send message: ">> \o msg, k), k)

\* the texts typed into the input field
TypedTexts == {<<"hi">>, <<" ">>}

\* event sequences the chat route writes for one request: a streamed
\* answer, a browser function's result, an api function's result, a
\* stream that breaks
ServerSequences ==
    LET status == Status(<<"Processing your request...">>)
        alert == [threw |-> FALSE,
                  value |-> [success |-> TRUE, browserAction |-> "alert",
                             data |-> [field |-> "message",
                                       value |-> <<"x">>]]]
        found == [threw |-> FALSE,
                  value |-> [success |-> TRUE, data |-> <<"r">>]]
    IN  {<<Token(<<"a">>), Token(<<"b">>), Done>>,
         <<status>> \o ResultEvents(alert),
         <<status>> \o ResultEvents(found),
         <<Token(<<"a">>), Error(<<"socket hang up">>)>>}

\* onChange of the input field, which is disabled while the rendered
\* state is streaming
SetMessage(text) ==
    /\ ~ client.rendered.isStreaming
    /\ client.message # text
    /\ client' = [client EXCEPT !.message = text]
    /\ UNCHANGED serverVars

\* React commits a render: the handlers of the page now close over the
\* current state
Render ==
    /\ client.rendered # [isStreaming |-> client.isStreaming,
                          message |-> client.message]
    /\ client' = [client EXCEPT !.rendered =
                     [isStreaming |-> client.isStreaming,
                      message |-> client.message]]
    /\ UNCHANGED serverVars

\* sendMessage() of the last render, up to its await of fetch; a call that
\* does not pass the guard returns without a trace
sendMessage ==
    /\ Trim(client.rendered.message) # <<>>
    /\ ~ client.rendered.isStreaming
    /\ Len(client.calls) < Cardinality(Sends)
    /\ LET k == Len(client.calls) + 1
           added == AddMessage(client, "user", client.rendered.message, k)
           streaming == appReducer(added, [type |-> "SET_STREAMING",
                                           payload |-> TRUE])
       IN  client' = [streaming EXCEPT
                         !.message = <<>>,
                         !.calls = Append(@, [pc |-> "fetch",
                                              events |-> <<>>,
                                              delivered |-> <<>>,
                                              assistantContent |-> <<>>])]
    /\ UNCHANGED serverVars

\* the fetch of call k settles: a rejection or a status that is not ok goes
\* to the catch block, a response adds the assistant message and is read
FetchSettlesClient(k, outcome, events) ==
    /\ k \in 1..Len(client.calls)
    /\ client.calls[k].pc = "fetch"
    /\ client' =
          CASE outcome = "ok" ->
                  [AddMessage(client, "assistant", <<>>, k)
                      EXCEPT !.calls[k].pc = "reading",
                             !.calls[k].events = events]
            [] outcome = "500" ->
                  CatchClient(client, k, <<"HTTP 500: ">>)
            [] OTHER -> CatchClient(client, k, <<"Failed to fetch">>)
    /\ UNCHANGED serverVars

\* the body of the read loop for one event of the response
OnEvent(state, k, data) ==
    CASE data.type = "token" ->
            LET content == state.calls[k].assistantContent \o data.text
            IN  [appReducer(state, [type |-> "UPDATE_LAST_MESSAGE",
                                    payload |-> [content |-> content]])
                    EXCEPT !.calls[k].assistantContent = content]
      [] data.type = "function_result" ->
            AddMessage(state, "function_result", <<"data">>, k)
      [] data.type = "browser_action" ->
            IF data.action = "alert"
            THEN AddMessage(state, "browser_action",
                            <<"Alert: ">> \o Property(data.data, "message"), k)
            ELSE state
      [] data.type = "error" -> AddMessage(state, "error", data.error, k)
      [] OTHER -> state

\* reader.read() of call k delivers the next event
ReadClient(k) ==
    /\ k \in 1..Len(client.calls)
    /\ client.calls[k].pc = "reading"
    /\ client.calls[k].events # <<>>
    /\ LET data == Head(client.calls[k].events)
       IN  client' = [OnEvent(client, k, data)
                         EXCEPT !.calls[k].events = Tail(@),
                                !.calls[k].delivered = Append(@, data)]
    /\ UNCHANGED serverVars

\* reader.read() of call k reports the end of the response
ReadDoneClient(k) ==
    /\ k \in 1..Len(client.calls)
    /\ client.calls[k].pc = "reading"
    /\ client.calls[k].events = <<>>
    /\ client' = Finally(client, k)
    /\ UNCHANGED serverVars

\* reader.read() of call k rejects: the connection broke in mid-stream
ReadFailsClient(k) ==
    /\ k \in 1..Len(client.calls)
    /\ client.calls[k].pc = "reading"
    /\ client' = CatchClient(client, k, <<"network error">>)
    /\ UNCHANGED serverVars

NextClient ==
    \/ \E text \in TypedTexts : SetMessage(text)
    \/ Render
    \/ sendMessage
    \/ \E k \in Sends, outcome \in {"ok", "500", "rejected"},
          events \in ServerSequences : FetchSettlesClient(k, outcome, events)
    \/ \E k \in Sends : ReadClient(k)
    \/ \E k \in Sends : ReadDoneClient(k)
    \/ \E k \in Sends : ReadFailsClient(k)

SpecClient == InitReadme /\ [][NextClient]_vars

\* the sendMessage calls whose request is under way
InFlight == {k \in 1..Len(client.calls) : client.calls[k].pc # "done"}

\* C38: at most one sendMessage call has a request under way, and when no
\* request is under way the streaming flag is false
OneSendInFlight ==
    /\ Cardinality(InFlight) <= 1
    /\ InFlight = {} => ~ client.isStreaming

\* the token texts of a sequence of events, joined
RECURSIVE TokenText(_)
TokenText(events) ==
    IF events = <<>> THEN <<>>
    ELSE (IF Head(events).type = "token" THEN Head(events).text ELSE <<>>)
         \o TokenText(Tail(events))

\* C39: the assistant message of a sendMessage call holds the texts of
\* the tokens delivered to that call so far, in order, and every other
\* message holds the content it was added with
TokensIntoAssistantMessage ==
    /\ \A i \in 1..Len(client.messages) :
          LET m == client.messages[i]
          IN  IF m.type = "assistant"
              THEN m.content = TokenText(client.calls[m.call].delivered)
              ELSE m.content = m.added
    /\ \A k \in 1..Len(client.calls) :
          client.calls[k].delivered # <<>>
          => \E i \in 1..Len(client.messages) :
                client.messages[i].type = "assistant"
                /\ client.messages[i].call = k

====
